---- MODULE Spec2Model ----
(***************************************************************************)
(* Verification model of the Kotlin Multiplatform coverage analyzer:       *)
(* lexical usage detection, the file dependency graph with its reverse     *)
(* breadth-first traversal, and the impact aggregation of                  *)
(* AnalyzeImpactUseCase::execute.                                          *)
(*                                                                         *)
(* Text is modelled at the character level: a string is a sequence of      *)
(* one-character strings, a file content is one such sequence with "\n"    *)
(* line terminators, so that the regular expressions of the source are     *)
(* evaluated on the characters they see.                                   *)
(***************************************************************************)
EXTENDS Naturals, Integers, Sequences, FiniteSets, TLC

VARIABLES
    \* ---- detect_usage_with_patterns, applied as a pure function ----
    content,            \* the file content handed to the detector
    kmp_symbols,        \* the list of known symbol names
    comment_prefixes,   \* the non-code line prefixes
    usages,             \* [done, map]: the returned map once the call is made
    \* ---- the disk ----
    fs,                 \* path -> [ok, text]: what fs::read_to_string returns
    \* ---- DependencyGraph (the instance DependencyRepositoryImpl holds) ----
    package_map,            \* "package.Type" -> defining file
    dependencies,           \* file -> the files it imports
    reverse_dependencies,   \* file -> the files that import it
    build_result,           \* what the last build returned: "none", "ok", "err"
    built_files,            \* the argument of the last build
    builds,                 \* how many times build was called on the instance
    \* ---- compute_transitive_impact, one loop iteration per step ----
    direct_impact_files,    \* the argument
    queue,                  \* the VecDeque
    transitive,             \* the visited set, the result at the end
    bfs_pc,                 \* "idle", "loop", "done"
    expanded,               \* file -> how often its dependents were pushed
    \* ---- AnalyzeImpactUseCase::execute, one step of the call per action ----
    pc,                     \* "idle", "extract", "detect", "graph", "transitive",
                            \* "done" (Ok returned), "failed" (Err returned)
    runs,                   \* execute calls started on the same repositories
    edited,                 \* a file changed on disk since the last call
    project,                \* kmp_files and app_files, as discovery returned them
    platform_order,         \* the iteration order of the app_files map
    symbols,                \* the extracted symbols
    symbol_usages,          \* all_usages: symbol name -> usages
    todo,                   \* application files still to scan
    source_file,            \* path of the file scanned last
    direct_affected_files,  \* what get_affected_files returned
    result,                 \* the ImpactAnalysis of a call that returned Ok
    \* ---- DependencyRepositoryImpl shared by several threads ----
    mutex,                  \* the Mutex around the graph: "free" or its holder
    threads                 \* thread -> the call it is in and the locals of it

usageVars == <<content, kmp_symbols, comment_prefixes, usages>>
graphVars == <<package_map, dependencies, reverse_dependencies, build_result,
               built_files, builds>>
bfsVars == <<direct_impact_files, queue, transitive, bfs_pc, expanded>>
callVars == <<project, platform_order, symbols, symbol_usages, todo, source_file,
              direct_affected_files, result>>
pipeVars == <<pc, runs, edited, callVars>>
threadVars == <<mutex, threads>>

vars == <<usageVars, fs, graphVars, bfsVars, pipeVars, threadVars>>

\* the result slot of a call not made yet
NotRun == [done |-> FALSE, map |-> <<>>]
Returned(m) == [done |-> TRUE, map |-> m]

(***************************************************************************)
(* Characters and strings                                                  *)
(***************************************************************************)
Upper == {"A","B","C","D","E","F","G","H","I","J","K","L","M",
          "N","O","P","Q","R","S","T","U","V","W","X","Y","Z"}
Lower == {"a","b","c","d","e","f","g","h","i","j","k","l","m",
          "n","o","p","q","r","s","t","u","v","w","x","y","z"}
Digit == {"0","1","2","3","4","5","6","7","8","9"}

\* \w of the regex crate, on the characters the model uses
WordChar == Upper \cup Lower \cup Digit \cup {"_"}

\* \s of the regex crate and the white space of str::trim
Space == {" ", "\t", "\n", "\r"}

NL == <<"\n">>
SP == <<" ">>

SetMin(S) == CHOOSE m \in S : \A n \in S : m <= n
SetMax(S) == CHOOSE m \in S : \A n \in S : n <= m

\* str::starts_with
starts_with(s, p) == Len(p) <= Len(s) /\ SubSeq(s, 1, Len(p)) = p

\* str::contains
str_contains(s, p) ==
    \E i \in 1..(Len(s) + 1) :
        i + Len(p) - 1 <= Len(s) /\ SubSeq(s, i, i + Len(p) - 1) = p

\* str::trim: leading and trailing white space removed
trim(s) ==
    LET keep == {i \in 1..Len(s) : s[i] \notin Space}
    IN  IF keep = {} THEN <<>> ELSE SubSeq(s, SetMin(keep), SetMax(keep))

\* str::lines: split at "\n", a "\r" before it dropped, no empty last line
RECURSIVE lines(_)
lines(c) ==
    IF c = <<>> THEN <<>>
    ELSE LET nls == {i \in 1..Len(c) : c[i] = "\n"}
         IN  IF nls = {} THEN <<c>>
             ELSE LET k   == SetMin(nls)
                      raw == SubSeq(c, 1, k - 1)
                      ln  == IF raw # <<>> /\ raw[Len(raw)] = "\r"
                                THEN SubSeq(raw, 1, Len(raw) - 1) ELSE raw
                  IN  <<ln>> \o lines(SubSeq(c, k + 1, Len(c)))

\* the elements of a sequence
Range(s) == {s[i] : i \in 1..Len(s)}

RECURSIVE SeqSum(_)
SeqSum(s) == IF s = <<>> THEN 0 ELSE Head(s) + SeqSum(Tail(s))

(***************************************************************************)
(* Regular-expression pieces                                               *)
(***************************************************************************)
\* the character at position i, or "" outside the string
CharAt(s, i) == IF i \in 1..Len(s) THEN s[i] ELSE ""

\* \b before position i: exactly one of the two neighbours is a word character
WordBoundary(s, i) == (CharAt(s, i - 1) \in WordChar) # (CharAt(s, i) \in WordChar)

\* \s* from position j: the positions the rest of the pattern may start at
RECURSIVE SkipSpaces(_, _)
SkipSpaces(s, j) ==
    {j} \cup (IF CharAt(s, j) \in Space THEN SkipSpaces(s, j + 1) ELSE {})

\* the tail pattern with an end-of-line alternative added, (?:...|\s+|$)
UsageTail_OrEndOfLine(s, j) ==
    \/ \E k \in SkipSpaces(s, j) : CharAt(s, k) = "("
    \/ CharAt(s, j) = "."
    \/ \E k \in SkipSpaces(s, j) : CharAt(s, k) = ":"
    \/ CharAt(s, j) = "<"
    \/ CharAt(s, j) \in Space
    \/ j = Len(s) + 1

\* (?:\s*\(|\.|\s*:|<|\s+) at position j
UsageTail(s, j) ==
    \/ \E k \in SkipSpaces(s, j) : CharAt(s, k) = "("
    \/ CharAt(s, j) = "."
    \/ \E k \in SkipSpaces(s, j) : CharAt(s, k) = ":"
    \/ CharAt(s, j) = "<"
    \/ CharAt(s, j) \in Space

\* \bNAME\b(?:...) matched with NAME starting at position i
UsageMatchAt(s, name, i) ==
    /\ i + Len(name) - 1 <= Len(s)
    /\ SubSeq(s, i, i + Len(name) - 1) = name
    /\ WordBoundary(s, i)
    /\ WordBoundary(s, i + Len(name))
    /\ UsageTail(s, i + Len(name))

\* Regex::is_match of the usage pattern built from symbol_name
UsageIsMatch(line, symbol_name) ==
    \E i \in 1..Len(line) : UsageMatchAt(line, symbol_name, i)

(***************************************************************************)
(* Anchored declaration patterns: (?m)^KEYWORD\s+(NAME)                    *)
(***************************************************************************)
\* [a-zA-Z0-9_.] of the package and import patterns
PkgChar == WordChar \cup {"."}

\* (?m)^ : the positions a line starts at
LineStarts(c) == {i \in 1..(Len(c) + 1) : i = 1 \/ c[i - 1] = "\n"}

\* the first position from j on whose character is not in Class
RECURSIVE RunEnd(_, _, _)
RunEnd(c, j, Class) ==
    IF CharAt(c, j) \in Class THEN RunEnd(c, j + 1, Class) ELSE j

HasLiteral(c, i, lit) ==
    i + Len(lit) - 1 <= Len(c) /\ SubSeq(c, i, i + Len(lit) - 1) = lit

NoMatch == [found |-> FALSE, name |-> <<>>, end |-> 0]

\* KEYWORD\s+([First][Rest]*) with KEYWORD at position i: the capture and the
\* position after it
KeywordCapture(c, i, kw, First, Rest) ==
    LET a == i + Len(kw)
        b == RunEnd(c, a, Space)
        e == RunEnd(c, b + 1, Rest)
    IN  IF HasLiteral(c, i, kw) /\ b > a /\ CharAt(c, b) \in First
        THEN [found |-> TRUE, name |-> SubSeq(c, b, e - 1), end |-> e]
        ELSE NoMatch

K_package == <<"p","a","c","k","a","g","e">>
K_import == <<"i","m","p","o","r","t">>
K_public == <<"p","u","b","l","i","c">>
K_class == <<"c","l","a","s","s">>
K_interface == <<"i","n","t","e","r","f","a","c","e">>
K_object == <<"o","b","j","e","c","t">>

\* ^package\s+([a-zA-Z0-9_.]+) : the first match, "" when there is none
PackageCapture(c) ==
    LET hits == {i \in LineStarts(c) :
                    KeywordCapture(c, i, K_package, PkgChar, PkgChar).found}
    IN  IF hits = {} THEN <<>>
        ELSE KeywordCapture(c, SetMin(hits), K_package, PkgChar, PkgChar).name

\* ^\s*(?:public\s+)?(?:class|interface|object)\s+([A-Z][a-zA-Z0-9_]*) tried at
\* line start i
TypeDeclAt(c, i, keywords) ==
    LET b  == RunEnd(c, i, Space)
        b2 == RunEnd(c, b + Len(K_public), Space)
        at == IF HasLiteral(c, b, K_public) /\ b2 > b + Len(K_public) THEN b2 ELSE b
        ms == {KeywordCapture(c, at, kw, Upper, WordChar) : kw \in keywords}
        ok == {m \in ms : m.found}
    IN  IF ok = {} THEN NoMatch ELSE CHOOSE m \in ok : TRUE

\* the first match of the primary-type pattern, if any
PrimaryTypeCapture(c) ==
    LET kws  == {K_class, K_interface, K_object}
        hits == {i \in LineStarts(c) : TypeDeclAt(c, i, kws).found}
    IN  IF hits = {} THEN NoMatch ELSE TypeDeclAt(c, SetMin(hits), kws)

\* captures_iter of ^import\s+([a-zA-Z0-9_.]+) : the matches from position pos
\* on, left to right, none overlapping the one before
RECURSIVE ImportCaptures(_, _)
ImportCaptures(c, pos) ==
    LET hits == {i \in LineStarts(c) :
                    i >= pos /\ KeywordCapture(c, i, K_import, PkgChar, PkgChar).found}
    IN  IF hits = {} THEN <<>>
        ELSE LET m == KeywordCapture(c, SetMin(hits), K_import, PkgChar, PkgChar)
             IN  <<m.name>> \o ImportCaptures(c, m.end)

(***************************************************************************)
(* detect_usage_with_patterns                                              *)
(***************************************************************************)
EmptyUsage(symbol_name) ==
    [symbol_name |-> symbol_name, reference_count |-> 0,
     used_in_files |-> {}, usage_lines |-> <<>>]

\* RecordUsage adding nothing when the symbol has a record of the line already
RecordUsage_OncePerLine(map, file_path, line_num, line, symbol_name) ==
    IF ~UsageIsMatch(line, symbol_name) THEN map
    ELSE LET old == IF symbol_name \in DOMAIN map THEN map[symbol_name]
                    ELSE EmptyUsage(symbol_name)
             new == [old EXCEPT
                       !.reference_count = @ + 1,
                       !.used_in_files = @ \cup {file_path},
                       !.usage_lines = Append(@, [file |-> file_path,
                                                  line |-> line_num,
                                                  context |-> trim(line)])]
             seen == \E k \in 1..Len(old.usage_lines) : old.usage_lines[k].line = line_num
         IN  [n \in DOMAIN map \cup {symbol_name} |->
                 IF n = symbol_name THEN (IF seen THEN old ELSE new) ELSE map[n]]

\* the map after one (line, symbol) test
RecordUsage(map, file_path, line_num, line, symbol_name) ==
    IF ~UsageIsMatch(line, symbol_name) THEN map
    ELSE LET old == IF symbol_name \in DOMAIN map THEN map[symbol_name]
                    ELSE EmptyUsage(symbol_name)
             new == [old EXCEPT
                       !.reference_count = @ + 1,
                       !.used_in_files = @ \cup {file_path},
                       !.usage_lines = Append(@, [file |-> file_path,
                                                  line |-> line_num,
                                                  context |-> trim(line)])]
         IN  [n \in DOMAIN map \cup {symbol_name} |->
                 IF n = symbol_name THEN new ELSE map[n]]

\* the inner loop: every symbol name of the list against one line
RECURSIVE ScanSymbols(_, _, _, _, _)
ScanSymbols(map, file_path, line_num, line, names) ==
    IF names = <<>> THEN map
    ELSE ScanSymbols(RecordUsage(map, file_path, line_num, line, Head(names)),
                     file_path, line_num, line, Tail(names))

\* IsSkippedLine testing the first prefix of the list only
IsSkippedLine_FirstPrefixOnly(line, prefixes) ==
    starts_with(trim(line), prefixes[1])

IsSkippedLine(line, prefixes) ==
    \E p \in Range(prefixes) : starts_with(trim(line), p)

\* the outer loop over the lines from line number line_num on
RECURSIVE ScanLines(_, _, _, _, _, _)
ScanLines(map, file_path, ls, line_num, names, prefixes) ==
    IF line_num > Len(ls) THEN map
    ELSE LET line == ls[line_num]
             next == IF IsSkippedLine(line, prefixes) THEN map
                     ELSE ScanSymbols(map, file_path, line_num, line, names)
         IN  ScanLines(next, file_path, ls, line_num + 1, names, prefixes)

detect_usage_with_patterns(c, file_path, names, prefixes) ==
    ScanLines(<<>>, file_path, lines(c), 1, names, prefixes)

(***************************************************************************)
(* Texts the bounded inputs are drawn from                                 *)
(***************************************************************************)
W_User == <<"U","s","e","r">>
W_UserRepository == <<"U","s","e","r","R","e","p","o","s","i","t","o","r","y">>
W_Foo == <<"F","o","o">>
W_bar == <<"b","a","r">>

L_UserParen == <<"U","s","e","r","(">>
L_UserDot == <<"U","s","e","r",".">>
L_UserColon == <<"U","s","e","r",":">>
L_UserAngle == <<"U","s","e","r","<">>
L_ValXUser == <<"v","a","l"," ","x",":"," ","U","s","e","r">>
L_ValXUserEq == <<"v","a","l"," ","x",":"," ","U","s","e","r"," ","="," ","u">>
L_UserRepositoryOnly == <<"U","s","e","r","R","e","p","o","s","i","t","o","r","y">>
L_CommentUser == <<"/","/"," ","U","s","e","r","(">>
L_ImportUser == <<"i","m","p","o","r","t"," ","a",".","U","s","e","r">>
L_UserSpParen == <<" "," ","U","s","e","r"," ","(","x",")">>
L_aUserParen == <<"a","U","s","e","r","(">>
L_JavaRepo == <<"U","s","e","r","R","e","p","o","s","i","t","o","r","y"," ","r","e","p","o"," ","="," ","n","e","w"," ","U","s","e","r","R","e","p","o","s","i","t","o","r","y","(",")",";">>
L_ValFFoo == <<"v","a","l"," ","f"," ","="," ","F","o","o","(",")">>
L_BarCall == <<"b","a","r","(",")">>
L_ObjcImport == <<"#","i","m","p","o","r","t"," ","<","U","s","e","r",".","h",">">>

UsageLineLib ==
    {L_UserParen, L_UserDot, L_UserColon, L_UserAngle, L_ValXUser, L_ValXUserEq,
     L_UserRepositoryOnly, L_CommentUser, L_ImportUser, L_UserSpParen,
     L_aUserParen, L_JavaRepo, L_ValFFoo, L_BarCall, L_ObjcImport, <<>>}

\* the longest content of the usage specification, in lines
MaxUsageLines == 2

\* lines written one after the other, each ended by "\n"
RECURSIVE JoinLines(_)
JoinLines(ls) == IF ls = <<>> THEN <<>> ELSE Head(ls) \o NL \o JoinLines(Tail(ls))

UsageContents ==
    {JoinLines(ls) : ls \in UNION {[1..n -> UsageLineLib] : n \in 1..MaxUsageLines}}

SymbolLists ==
    {<<W_User>>, <<W_UserRepository>>, <<W_User, W_UserRepository>>,
     <<W_Foo, W_bar>>, <<W_User, W_User>>}

(***************************************************************************)
(* The file contents the bounded file systems are drawn from               *)
(***************************************************************************)
\* the shared-module file: declares class Foo and function bar:
\*     package a
\*     class Foo
\*     fun bar() {}
C_Shared ==
    JoinLines(<<<<"p","a","c","k","a","g","e"," ","a">>,
                <<"c","l","a","s","s"," ","F","o","o">>,
                <<"f","u","n"," ","b","a","r","(",")"," ","{","}">>>>)

\* an application file that uses Foo and bar, each on one line:
\*     package b
\*     import a.Foo
\*     class Main
\*     val f = Foo()
\*     bar()
C_AppUses ==
    JoinLines(<<<<"p","a","c","k","a","g","e"," ","b">>,
                <<"i","m","p","o","r","t"," ","a",".","F","o","o">>,
                <<"c","l","a","s","s"," ","M","a","i","n">>,
                <<"v","a","l"," ","f"," ","="," ","F","o","o","(",")">>,
                <<"b","a","r","(",")">>>>)

\* an application file that uses Foo and imports b.Second:
\*     package b
\*     import b.Second
\*     class Main
\*     val f = Foo()
C_AppCycle ==
    JoinLines(<<<<"p","a","c","k","a","g","e"," ","b">>,
                <<"i","m","p","o","r","t"," ","b",".","S","e","c","o","n","d">>,
                <<"c","l","a","s","s"," ","M","a","i","n">>,
                <<"v","a","l"," ","f"," ","="," ","F","o","o","(",")">>>>)

\* an application file with no usage outside a comment:
\*     package b
\*     class Main
\*     // Foo()
\*     (blank)
C_AppPlain ==
    JoinLines(<<<<"p","a","c","k","a","g","e"," ","b">>,
                <<"c","l","a","s","s"," ","M","a","i","n">>,
                <<"/","/"," ","F","o","o","(",")">>,
                <<>>>>)

\* only comment and blank lines:
\*     // Foo()
\*     (blank)
C_CommentOnly ==
    JoinLines(<<<<"/","/"," ","F","o","o","(",")">>,
                <<>>>>)

\* imports b.Main:
\*     package b
\*     import b.Main
\*     class Second
C_ImportsMain ==
    JoinLines(<<<<"p","a","c","k","a","g","e"," ","b">>,
                <<"i","m","p","o","r","t"," ","b",".","M","a","i","n">>,
                <<"c","l","a","s","s"," ","S","e","c","o","n","d">>>>)

\* imports the type it declares itself:
\*     package b
\*     import b.Second
\*     class Second
C_SelfImport ==
    JoinLines(<<<<"p","a","c","k","a","g","e"," ","b">>,
                <<"i","m","p","o","r","t"," ","b",".","S","e","c","o","n","d">>,
                <<"c","l","a","s","s"," ","S","e","c","o","n","d">>>>)

\* declares b.Second, imports nothing:
\*     package b
\*     class Second
C_SecondPlain ==
    JoinLines(<<<<"p","a","c","k","a","g","e"," ","b">>,
                <<"c","l","a","s","s"," ","S","e","c","o","n","d">>>>)

\* declares b.Main a second time and imports it:
\*     package b
\*     import b.Main
\*     class Main
C_MainAgain ==
    JoinLines(<<<<"p","a","c","k","a","g","e"," ","b">>,
                <<"i","m","p","o","r","t"," ","b",".","M","a","i","n">>,
                <<"c","l","a","s","s"," ","M","a","i","n">>>>)

\* a Swift file that uses Foo:
\*     import Shared
\*     let f = Foo()
C_SwiftUses ==
    JoinLines(<<<<"i","m","p","o","r","t"," ","S","h","a","r","e","d">>,
                <<"l","e","t"," ","f"," ","="," ","F","o","o","(",")">>>>)

\* a Swift file with no code line:
\*     (blank)
\*     // none
C_SwiftBlank ==
    JoinLines(<<<<>>,
                <<"/","/"," ","n","o","n","e">>>>)

\* imports b.* (captured as "b."), declares V in no package:
\*     import b.*
\*     class V
C_Wildcard ==
    JoinLines(<<<<"i","m","p","o","r","t"," ","b",".","*">>,
                <<"c","l","a","s","s"," ","V">>>>)

\* a Swift file that names b.Main in an import and uses no shared symbol:
\*     import b.Main
\*     let x = 1
C_SwiftImportsMain ==
    JoinLines(<<<<"i","m","p","o","r","t"," ","b",".","M","a","i","n">>,
                <<"l","e","t"," ","x"," ","="," ","1">>>>)

\* a shared-module file marked internal:
\*     package a
\*     internal class Foo
C_SharedInternal ==
    JoinLines(<<<<"p","a","c","k","a","g","e"," ","a">>,
                <<"i","n","t","e","r","n","a","l"," ","c","l","a","s","s"," ","F","o","o">>>>)

\* a private declaration at file scope after the package line:
\*     package a
\*     private class Secret
\*     class Foo
C_SharedPrivate ==
    JoinLines(<<<<"p","a","c","k","a","g","e"," ","a">>,
                <<"p","r","i","v","a","t","e"," ","c","l","a","s","s"," ","S","e","c","r","e","t">>,
                <<"c","l","a","s","s"," ","F","o","o">>>>)

\* a private declaration at the very start of the file:
\*     private class Secret
\*     class Foo
C_PrivateFirst ==
    JoinLines(<<<<"p","r","i","v","a","t","e"," ","c","l","a","s","s"," ","S","e","c","r","e","t">>,
                <<"c","l","a","s","s"," ","F","o","o">>>>)

\* an internal declaration next to a public one:
\*     package a
\*     internal fun hid() {}
\*     class Foo
C_InternalMixed ==
    JoinLines(<<<<"p","a","c","k","a","g","e"," ","a">>,
                <<"i","n","t","e","r","n","a","l"," ","f","u","n"," ","h","i","d","(",")"," ","{","}">>,
                <<"c","l","a","s","s"," ","F","o","o">>>>)

\* declarations of every kind, not in the order of the kinds:
\*     package a
\*     fun bar() {}
\*     public interface Api
\*     object Reg
\*     val x = 1
\*     typealias Id = Int
\*     class Foo
C_SharedKinds ==
    JoinLines(<<<<"p","a","c","k","a","g","e"," ","a">>,
                <<"f","u","n"," ","b","a","r","(",")"," ","{","}">>,
                <<"p","u","b","l","i","c"," ","i","n","t","e","r","f","a","c","e"," ","A","p","i">>,
                <<"o","b","j","e","c","t"," ","R","e","g">>,
                <<"v","a","l"," ","x"," ","="," ","1">>,
                <<"t","y","p","e","a","l","i","a","s"," ","I","d"," ","="," ","I","n","t">>,
                <<"c","l","a","s","s"," ","F","o","o">>>>)

\* declares b.MainX, a name that b.Main is a prefix of:
\*     package b
\*     class MainX
C_MainExtra ==
    JoinLines(<<<<"p","a","c","k","a","g","e"," ","b">>,
                <<"c","l","a","s","s"," ","M","a","i","n","X">>>>)

\* imports b.Main and then the prefix b.M, declares V in no package:
\*     import b.Main
\*     import b.M
\*     class V
C_TwoImports ==
    JoinLines(<<<<"i","m","p","o","r","t"," ","b",".","M","a","i","n">>,
                <<"i","m","p","o","r","t"," ","b",".","M">>,
                <<"c","l","a","s","s"," ","V">>>>)

ContentLib ==
    {C_Shared, C_AppUses, C_AppCycle, C_AppPlain,
     C_CommentOnly, C_ImportsMain, C_SelfImport, C_SecondPlain,
     C_MainAgain, C_SwiftUses, C_SwiftBlank, C_Wildcard,
     C_SwiftImportsMain, C_SharedInternal,
     C_SharedPrivate, C_PrivateFirst, C_InternalMixed, C_SharedKinds,
     C_MainExtra, C_TwoImports}

(***************************************************************************)
(* The disk                                                                *)
(***************************************************************************)
Paths == {"K1", "A1", "A2", "I1"}

Unreadable == [ok |-> FALSE, text |-> <<>>]
Readable(text) == [ok |-> TRUE, text |-> text]

\* what each path may hold when execute runs; no import here is resolved by
\* prefix
FsChoices ==
    [K1 |-> {Readable(C_Shared), Readable(C_SharedInternal), Unreadable},
     A1 |-> {Readable(C_AppUses), Readable(C_AppCycle), Readable(C_AppPlain),
             Readable(C_CommentOnly), Unreadable},
     A2 |-> {Readable(C_ImportsMain), Readable(C_SecondPlain), Unreadable},
     I1 |-> {Readable(C_SwiftUses), Readable(C_SwiftBlank), Readable(C_SwiftImportsMain)}]

DisksOf(choices) ==
    {f \in [Paths -> UNION {choices[p] : p \in Paths}] :
        \A p \in Paths : f[p] \in choices[p]}

FileSystems == DisksOf(FsChoices)

\* what each path may hold in the specifications of the graph alone
GraphFsChoices ==
    [K1 |-> {Readable(C_Shared), Unreadable},
     A1 |-> {Readable(C_AppUses), Readable(C_AppCycle), Unreadable},
     A2 |-> {Readable(C_ImportsMain), Readable(C_SelfImport), Readable(C_MainAgain)},
     I1 |-> {Readable(C_SwiftUses), Readable(C_Wildcard)}]

GraphFileSystems == DisksOf(GraphFsChoices)

\* what each path may hold in the specification of import resolution
ResolveFsChoices ==
    [K1 |-> {Readable(C_MainExtra), Unreadable},
     A1 |-> {Readable(C_AppUses)},
     A2 |-> {Readable(C_ImportsMain), Readable(C_SelfImport)},
     I1 |-> {Readable(C_Wildcard), Readable(C_TwoImports)}]

ResolveFileSystems == DisksOf(ResolveFsChoices)

\* what each path may hold in the specification of symbol extraction
ExtractFsChoices ==
    [K1 |-> {Readable(C_Shared), Readable(C_SharedKinds), Readable(C_SharedInternal),
             Readable(C_SharedPrivate), Readable(C_PrivateFirst),
             Readable(C_InternalMixed), Unreadable},
     A1 |-> {Readable(C_AppUses), Readable(C_PrivateFirst)},
     A2 |-> {Readable(C_SecondPlain), Unreadable},
     I1 |-> {Readable(C_SwiftBlank)}]

ExtractFileSystems == DisksOf(ExtractFsChoices)

\* the three patterns of the graph builder on every content of the library
ParseTable ==
    [c \in ContentLib |->
        [package |-> PackageCapture(c),
         primary |-> PrimaryTypeCapture(c),
         imports |-> ImportCaptures(c, 1)]]

Ok(v) == [ok |-> TRUE, value |-> v]
Err == [ok |-> FALSE, value |-> <<>>]

(***************************************************************************)
(* DependencyGraph                                                         *)
(***************************************************************************)
EmptyMap == <<>>

MapPut(m, k, v) == [x \in DOMAIN m \cup {k} |-> IF x = k THEN v ELSE m[x]]

MapGet(m, k) == IF k \in DOMAIN m THEN m[k] ELSE {}

\* the sequences that list the elements of S once each
Orders(S) ==
    {o \in [1..Cardinality(S) -> S] : \A i, j \in 1..Cardinality(S) : o[i] = o[j] => i = j}

extract_package_name(disk, file) ==
    IF disk[file].ok THEN Ok(ParseTable[disk[file].text].package) ELSE Err

extract_primary_class_name(disk, file) ==
    IF disk[file].ok THEN ParseTable[disk[file].text].primary ELSE NoMatch

extract_imports(disk, file) ==
    IF disk[file].ok THEN Ok(ParseTable[disk[file].text].imports) ELSE Err

\* resolve_import without the exact match tried first
resolve_import_NoExact(pm, key_order, import) ==
    LET hits == {i \in 1..Len(key_order) : starts_with(key_order[i], import)}
    IN  IF hits = {} THEN [found |-> FALSE, file |-> ""]
        ELSE [found |-> TRUE, file |-> pm[key_order[SetMin(hits)]]]

\* resolve_import without the prefix match
resolve_import_ExactOnly(pm, key_order, import) ==
    IF import \in DOMAIN pm THEN [found |-> TRUE, file |-> pm[import]]
    ELSE [found |-> FALSE, file |-> ""]

\* resolve_import, the map iterated in the order key_order: the file, or no match
resolve_import(pm, key_order, import) ==
    IF import \in DOMAIN pm THEN [found |-> TRUE, file |-> pm[import]]
    ELSE LET hits == {i \in 1..Len(key_order) : starts_with(key_order[i], import)}
         IN  IF hits = {} THEN [found |-> FALSE, file |-> ""]
             ELSE [found |-> TRUE, file |-> pm[key_order[SetMin(hits)]]]

\* first pass of build: the package map after the files of the list
RECURSIVE BuildPackageMap(_, _, _)
BuildPackageMap(pm, disk, files) ==
    IF files = <<>> THEN pm
    ELSE LET file == Head(files)
             package_name == extract_package_name(disk, file)
             class_name == extract_primary_class_name(disk, file)
             full_name == package_name.value \o <<".">> \o class_name.name
             next == IF package_name.ok /\ class_name.found
                     THEN MapPut(pm, full_name, file) ELSE pm
         IN  BuildPackageMap(next, disk, Tail(files))

\* AddReverse with the set of dependents replaced instead of extended
AddReverse_Overwrite(rev, deps, file) ==
    [d \in DOMAIN rev \cup deps |-> IF d \in deps THEN {file} ELSE rev[d]]

\* the reverse map with file added as a dependent of every file of deps
AddReverse(rev, deps, file) ==
    [d \in DOMAIN rev \cup deps |->
        IF d \in deps THEN MapGet(rev, d) \cup {file} ELSE rev[d]]

\* second pass of build: [ok, graph] after the files of the list, stopping at
\* the first file whose imports cannot be read
RECURSIVE BuildEdges(_, _, _, _)
BuildEdges(g, key_order, disk, files) ==
    IF files = <<>> THEN [ok |-> TRUE, graph |-> g]
    ELSE LET file == Head(files)
             imports == extract_imports(disk, file)
         IN  IF ~imports.ok THEN [ok |-> FALSE, graph |-> g]
             ELSE LET res  == {resolve_import(g.package_map, key_order, imports.value[i]) :
                                  i \in 1..Len(imports.value)}
                      deps == {r.file : r \in {x \in res : x.found}}
                      next == [g EXCEPT
                                 !.reverse_dependencies = AddReverse(@, deps, file),
                                 !.dependencies = MapPut(@, file, deps)]
                  IN  BuildEdges(next, key_order, disk, Tail(files))

EmptyGraph ==
    [package_map |-> EmptyMap, dependencies |-> EmptyMap,
     reverse_dependencies |-> EmptyMap]

\* build in one pass: each file is indexed and its imports are resolved at
\* once, against the keys of the files up to it
build_OnePass(g, key_order, disk, files) ==
    LET RECURSIVE Pass(_, _)
        Pass(acc, i) ==
            IF i > Len(files) \/ ~acc.ok THEN acc
            ELSE LET pm == BuildPackageMap(acc.graph.package_map, disk, <<files[i]>>)
                     ko == SelectSeq(key_order, LAMBDA k : k \in DOMAIN pm)
                 IN  Pass(BuildEdges([acc.graph EXCEPT !.package_map = pm],
                                     ko, disk, <<files[i]>>), i + 1)
    IN  Pass([ok |-> TRUE, graph |-> g], 1)

\* build giving back the graph it was called on when it fails
build_RollsBack(g, key_order, disk, files) ==
    LET r == BuildEdges([g EXCEPT !.package_map = BuildPackageMap(@, disk, files)],
                        key_order, disk, files)
    IN  IF r.ok THEN r ELSE [ok |-> FALSE, graph |-> g]

\* DependencyGraph::build on graph g, the package map iterated in key_order
build(g, key_order, disk, files) ==
    BuildEdges([g EXCEPT !.package_map = BuildPackageMap(@, disk, files)],
               key_order, disk, files)

\* the keys a prefix match of some import of the files can return
PrefixCandidates(pm, disk, files) ==
    {k \in DOMAIN pm :
        \E i \in 1..Len(files) :
            /\ disk[files[i]].ok
            /\ \E import \in Range(ParseTable[disk[files[i]].text].imports) :
                   import \notin DOMAIN pm /\ starts_with(k, import)}

\* the iteration orders of the package map that build may see, as far as they
\* decide a prefix match: the orders of the keys a prefix match can return
KeyOrders(g, disk, files) ==
    Orders(PrefixCandidates(BuildPackageMap(g.package_map, disk, files), disk, files))

Graph == [package_map |-> package_map, dependencies |-> dependencies,
          reverse_dependencies |-> reverse_dependencies]

(***************************************************************************)
(* SymbolUsageRepositoryImpl::get_comment_prefixes                         *)
(***************************************************************************)
Languages == {"Kotlin", "Java", "Swift", "ObjectiveC"}

P_LineComment == <<"/","/">>
P_BlockComment == <<"/","*">>
P_Star == <<"*">>
P_Import == <<"i","m","p","o","r","t"," ">>
P_HashImport == <<"#","i","m","p","o","r","t">>

\* get_comment_prefixes without the line comment
get_comment_prefixes_NoLineComment(language) ==
    IF language \in {"Kotlin", "Java"}
    THEN <<P_BlockComment, P_Star, P_Import>>
    ELSE <<P_BlockComment, P_Star, P_Import, P_HashImport>>

get_comment_prefixes(language) ==
    IF language \in {"Kotlin", "Java"}
    THEN <<P_LineComment, P_BlockComment, P_Star, P_Import>>
    ELSE <<P_LineComment, P_BlockComment, P_Star, P_Import, P_HashImport>>

\* the path the pure-function specification reports usages under
UsageFile == "A1"

\* the values of the locals of execute while no call is in progress
NoProject == [kmp_files |-> <<>>, app_files |-> <<>>]

ZeroRatio == [num |-> 0, den |-> 1]

NoResult ==
    [total_symbols |-> 0, total_app_files |-> 0, total_app_lines |-> 0,
     affected_files |-> {}, affected_lines |-> 0, impact_ratio |-> ZeroRatio,
     platform_impacts |-> <<>>, symbol_usages |-> <<>>]

(***************************************************************************)
(* Specification SpecUsage: detect_usage_with_patterns on bounded inputs   *)
(***************************************************************************)
\* the variables of the parts a specification does not exercise
IdleUsage ==
    /\ content = <<>>
    /\ kmp_symbols = <<>>
    /\ comment_prefixes = <<>>
    /\ usages = NotRun

\* the threads that share the repository
Threads == {"t1", "t2"}

\* a thread that is in no call of the repository
NoCall ==
    [op |-> "none", pc |-> "idle", file_paths |-> <<>>, pos |-> 0, key_order |-> <<>>,
     direct_files |-> {}, queue |-> <<>>, transitive |-> {}, entry |-> EmptyGraph,
     made |-> 0]

IdleThreads ==
    /\ mutex = "free"
    /\ threads = [t \in Threads |-> NoCall]

IdleGraph ==
    /\ package_map = EmptyMap
    /\ dependencies = EmptyMap
    /\ reverse_dependencies = EmptyMap
    /\ build_result = "none"
    /\ built_files = <<>>
    /\ builds = 0

IdleBfs ==
    /\ direct_impact_files = {}
    /\ queue = <<>>
    /\ transitive = {}
    /\ bfs_pc = "idle"
    /\ expanded = [p \in Paths |-> 0]

\* no execute call in progress, none made
IdlePipe ==
    /\ pc = "idle"
    /\ runs = 0
    /\ edited = FALSE
    /\ project = NoProject
    /\ platform_order = <<>>
    /\ symbols = <<>>
    /\ symbol_usages = EmptyMap
    /\ todo = <<>>
    /\ source_file = ""
    /\ direct_affected_files = <<>>
    /\ result = NoResult

InitUsage ==
    /\ fs = [p \in Paths |-> Unreadable]
    /\ IdleGraph
    /\ IdleThreads
    /\ IdleBfs
    /\ IdlePipe
    /\ content \in UsageContents
    /\ kmp_symbols \in SymbolLists
    /\ \E language \in Languages : comment_prefixes = get_comment_prefixes(language)
    /\ usages = NotRun

DetectUsage ==
    /\ usages = NotRun
    /\ usages' = Returned(detect_usage_with_patterns(content, UsageFile,
                                                     kmp_symbols, comment_prefixes))
    /\ UNCHANGED <<content, kmp_symbols, comment_prefixes, fs, graphVars, threadVars, bfsVars, pipeVars>>

NextUsage == DetectUsage

SpecUsage == InitUsage /\ [][NextUsage]_vars

(***************************************************************************)
(* Specification SpecGraph: build and compute_transitive_impact called     *)
(* in any order on one DependencyGraph instance over a fixed disk          *)
(***************************************************************************)
\* the most build calls the history variables follow on one instance
MaxBuilds == 2

\* file lists without repetition
FileLists ==
    {l \in UNION {[1..n -> Paths] : n \in 0..Cardinality(Paths)} :
        \A i, j \in 1..Len(l) : l[i] = l[j] => i = j}

\* build(files), the whole call; no traversal holds the instance
BuildCall(files) ==
    /\ bfs_pc = "idle"
    /\ \E key_order \in KeyOrders(Graph, fs, files) :
          LET r == build(Graph, key_order, fs, files)
          IN  /\ package_map' = r.graph.package_map
              /\ dependencies' = r.graph.dependencies
              /\ reverse_dependencies' = r.graph.reverse_dependencies
              /\ build_result' = IF r.ok THEN "ok" ELSE "err"
    /\ UNCHANGED <<fs, usageVars, bfsVars, threadVars>>

\* a build call whose argument and number are remembered
Build(files) ==
    /\ builds < MaxBuilds
    /\ BuildCall(files)
    /\ built_files' = files
    /\ builds' = builds + 1
    /\ UNCHANGED pipeVars

\* a build call on an instance with any number of earlier calls
Rebuild(files) ==
    /\ BuildCall(files)
    /\ UNCHANGED <<built_files, builds, pipeVars>>

\* compute_transitive_impact up to the loop: the queue holds the direct files,
\* in the iteration order of the set
BfsStart(D) ==
    /\ bfs_pc = "idle"
    /\ direct_impact_files' = D
    /\ transitive' = {}
    /\ \E o \in Orders(D) : queue' = o
    /\ expanded' = [p \in Paths |-> 0]
    /\ bfs_pc' = "loop"
    /\ UNCHANGED <<fs, usageVars, graphVars, threadVars, pipeVars>>

\* BfsLoop without the test that skips a file already visited
BfsLoop_NoVisitedCheck ==
    /\ bfs_pc = "loop"
    /\ queue # <<>>
    /\ LET file == Head(queue)
       IN  /\ transitive' = transitive \cup {file}
           /\ IF file \in DOMAIN reverse_dependencies
              THEN /\ \E o \in Orders({d \in reverse_dependencies[file] :
                                         d \notin transitive'}) :
                         queue' = Tail(queue) \o o
                   /\ expanded' = [expanded EXCEPT ![file] = @ + 1]
              ELSE /\ queue' = Tail(queue)
                   /\ UNCHANGED expanded
    /\ UNCHANGED <<direct_impact_files, bfs_pc, fs, usageVars, graphVars, threadVars, pipeVars>>

\* BfsLoop following the forward edges instead of the reverse edges
BfsLoop_Forward ==
    /\ bfs_pc = "loop"
    /\ queue # <<>>
    /\ LET file == Head(queue)
       IN  IF file \in transitive
           THEN /\ queue' = Tail(queue)
                /\ UNCHANGED <<transitive, expanded>>
           ELSE /\ transitive' = transitive \cup {file}
                /\ IF file \in DOMAIN dependencies
                   THEN /\ \E o \in Orders({d \in dependencies[file] :
                                              d \notin transitive'}) :
                              queue' = Tail(queue) \o o
                        /\ expanded' = [expanded EXCEPT ![file] = @ + 1]
                   ELSE /\ queue' = Tail(queue)
                        /\ UNCHANGED expanded
    /\ UNCHANGED <<direct_impact_files, bfs_pc, fs, usageVars, graphVars, threadVars, pipeVars>>

\* one iteration of the while loop
BfsLoop ==
    /\ bfs_pc = "loop"
    /\ queue # <<>>
    /\ LET file == Head(queue)
       IN  IF file \in transitive
           THEN /\ queue' = Tail(queue)
                /\ UNCHANGED <<transitive, expanded>>
           ELSE /\ transitive' = transitive \cup {file}
                /\ IF file \in DOMAIN reverse_dependencies
                   THEN /\ \E o \in Orders({d \in reverse_dependencies[file] :
                                              d \notin transitive'}) :
                              queue' = Tail(queue) \o o
                        /\ expanded' = [expanded EXCEPT ![file] = @ + 1]
                   ELSE /\ queue' = Tail(queue)
                        /\ UNCHANGED expanded
    /\ UNCHANGED <<direct_impact_files, bfs_pc, fs, usageVars, graphVars, threadVars, pipeVars>>

\* BfsReturn without the removal of the direct files
BfsReturn_KeepDirect ==
    /\ bfs_pc = "loop"
    /\ queue = <<>>
    /\ bfs_pc' = "done"
    /\ UNCHANGED <<transitive, direct_impact_files, queue, expanded, fs, usageVars,
                   graphVars, threadVars, pipeVars>>

\* the loop left: the direct files removed, the set returned
BfsReturn ==
    /\ bfs_pc = "loop"
    /\ queue = <<>>
    /\ transitive' = transitive \ direct_impact_files
    /\ bfs_pc' = "done"
    /\ UNCHANGED <<direct_impact_files, queue, expanded, fs, usageVars, graphVars, threadVars, pipeVars>>

\* the caller is done with the returned set
BfsDrop ==
    /\ bfs_pc = "done"
    /\ direct_impact_files' = {}
    /\ queue' = <<>>
    /\ transitive' = {}
    /\ bfs_pc' = "idle"
    /\ expanded' = [p \in Paths |-> 0]
    /\ UNCHANGED <<fs, usageVars, graphVars, threadVars, pipeVars>>

InitGraph ==
    /\ fs \in GraphFileSystems
    /\ IdleUsage
    /\ IdleGraph
    /\ IdleThreads
    /\ IdleBfs
    /\ IdlePipe

NextGraph ==
    \/ \E files \in FileLists : Rebuild(files)
    \/ \E D \in SUBSET Paths : BfsStart(D)
    \/ BfsLoop
    \/ BfsReturn
    \/ BfsDrop

SpecGraph == InitGraph /\ [][NextGraph]_vars

\* a call of compute_transitive_impact runs on: the loop is sequential code
\* that takes its next step
FairSpecGraph ==
    SpecGraph /\ WF_vars(BfsLoop) /\ WF_vars(BfsReturn)

(***************************************************************************)
(* Specification SpecBuild: a bounded number of build calls on one         *)
(* instance, the argument of the last one remembered                       *)
(***************************************************************************)
NextBuild == \E files \in FileLists : Build(files)

SpecBuild == InitGraph /\ [][NextBuild]_vars

(***************************************************************************)
(* SymbolExtractor                                                         *)
(***************************************************************************)
K_fun == <<"f","u","n">>
K_val == <<"v","a","l">>
K_var == <<"v","a","r">>
K_typealias == <<"t","y","p","e","a","l","i","a","s">>
K_internalSp == <<"i","n","t","e","r","n","a","l"," ">>
K_privateSp == <<"p","r","i","v","a","t","e"," ">>

\* ^\s*(?:public\s+)?(?:KEYWORDS)\s+([First][a-zA-Z0-9_]*) tried at line start
\* i, followed by \s* and a character of Follow when Follow is not empty
DeclAt(c, i, keywords, First, Follow) ==
    LET b  == RunEnd(c, i, Space)
        b2 == RunEnd(c, b + Len(K_public), Space)
        at == IF HasLiteral(c, b, K_public) /\ b2 > b + Len(K_public) THEN b2 ELSE b
        ms == {KeywordCapture(c, at, kw, First, WordChar) : kw \in keywords}
        ok == {m \in ms : /\ m.found
                          /\ \/ Follow = {}
                             \/ CharAt(c, RunEnd(c, m.end, Space)) \in Follow}
    IN  IF ok = {} THEN NoMatch
        ELSE LET m == CHOOSE x \in ok : TRUE
             IN  IF Follow = {} THEN m
                 ELSE [m EXCEPT !.end = RunEnd(c, m.end, Space) + 1]

\* captures_iter of a declaration pattern: the names captured from position
\* pos on, left to right, no match overlapping the one before
RECURSIVE DeclCaptures(_, _, _, _, _)
DeclCaptures(c, pos, keywords, First, Follow) ==
    LET hits == {i \in LineStarts(c) :
                    i >= pos /\ DeclAt(c, i, keywords, First, Follow).found}
    IN  IF hits = {} THEN <<>>
        ELSE LET m == DeclAt(c, SetMin(hits), keywords, First, Follow)
             IN  <<m.name>> \o DeclCaptures(c, m.end, keywords, First, Follow)

\* the names as symbols of one kind
OfKind(names, symbol_type) ==
    [k \in 1..Len(names) |-> [name |-> names[k], symbol_type |-> symbol_type]]

\* is_private_file looking for both markers at the start of the file only
is_private_file_StartOnly(c) ==
    starts_with(c, K_internalSp) \/ starts_with(c, K_privateSp)

is_private_file(c) ==
    str_contains(c, K_internalSp) \/ starts_with(c, K_privateSp)

\* extract_symbols running the function pattern before the type patterns
SymbolsIn_FunctionsFirst(c) ==
    IF is_private_file(c) THEN <<>>
    ELSE OfKind(DeclCaptures(c, 1, {K_fun}, Lower, {"("}), "Function")
         \o OfKind(DeclCaptures(c, 1, {K_class}, Upper, {}), "Class")
         \o OfKind(DeclCaptures(c, 1, {K_interface}, Upper, {}), "Interface")
         \o OfKind(DeclCaptures(c, 1, {K_object}, Upper, {}), "Object")
         \o OfKind(DeclCaptures(c, 1, {K_val, K_var}, Lower, {":", "="}), "Property")
         \o OfKind(DeclCaptures(c, 1, {K_typealias}, Upper, {}), "TypeAlias")

\* extract_symbols on content c: the six patterns, kind after kind
SymbolsIn(c) ==
    IF is_private_file(c) THEN <<>>
    ELSE OfKind(DeclCaptures(c, 1, {K_class}, Upper, {}), "Class")
         \o OfKind(DeclCaptures(c, 1, {K_interface}, Upper, {}), "Interface")
         \o OfKind(DeclCaptures(c, 1, {K_object}, Upper, {}), "Object")
         \o OfKind(DeclCaptures(c, 1, {K_fun}, Lower, {"("}), "Function")
         \o OfKind(DeclCaptures(c, 1, {K_val, K_var}, Lower, {":", "="}), "Property")
         \o OfKind(DeclCaptures(c, 1, {K_typealias}, Upper, {}), "TypeAlias")

\* SymbolsIn on every content of the library
SymbolTable == [c \in ContentLib |-> SymbolsIn(c)]

\* the path strings behind the path names
PathName ==
    [K1 |-> <<"p","/","s","h","a","r","e","d","/","s","r","c","/","K","1",".","k","t">>,
     A1 |-> <<"p","/","a","p","p","/","s","r","c","/","A","1",".","k","t">>,
     A2 |-> <<"a","p","p","/","s","r","c","/","A","2",".","k","t">>,
     I1 |-> <<"p","/","i","o","s","/","I","1",".","s","w","i","f","t">>]

K_srcDir == <<"/","s","r","c","/">>
K_unknown == <<"u","n","k","n","o","w","n">>

\* what follows the last "/" of a string, the string itself without one
AfterLastSlash(before_src) ==
    IF \E i \in 1..Len(before_src) : before_src[i] = "/"
    THEN SubSeq(before_src,
                SetMax({i \in 1..Len(before_src) : before_src[i] = "/"}) + 1,
                Len(before_src))
    ELSE before_src

\* determine_module_name: the directory name before the first "/src/"
determine_module_name(path) ==
    IF str_contains(path, K_srcDir)
    THEN AfterLastSlash(SubSeq(path, 1,
                               SetMin({i \in 1..Len(path) : HasLiteral(path, i, K_srcDir)}) - 1))
    ELSE K_unknown

\* the KmpSymbol records extract_symbols pushes, as extract_kmp_symbols converts them
SymbolsOfFile(found, file_path, module) ==
    [k \in 1..Len(found) |->
        [name |-> found[k].name, symbol_type |-> found[k].symbol_type,
         module |-> module, file_path |-> file_path, is_public |-> TRUE]]

\* extract_symbols of an extractor that leaves out a file it has seen
extract_symbols_SkipsSeen(disk, file_path, module) ==
    IF disk[file_path].ok
    THEN IF \E k \in 1..Len(symbols) : symbols[k].file_path = file_path
         THEN Ok(<<>>)
         ELSE Ok(SymbolsOfFile(SymbolTable[disk[file_path].text], file_path, module))
    ELSE Err

extract_symbols(disk, file_path, module) ==
    IF disk[file_path].ok
    THEN Ok(SymbolsOfFile(SymbolTable[disk[file_path].text], file_path, module))
    ELSE Err

\* extract_kmp_symbols leaving out the files that cannot be read
RECURSIVE extract_kmp_symbols_Tolerant(_, _)
extract_kmp_symbols_Tolerant(disk, kmp_file_paths) ==
    IF kmp_file_paths = <<>> THEN Ok(<<>>)
    ELSE IF disk[Head(kmp_file_paths)].ok
         THEN Ok(SymbolsOfFile(SymbolTable[disk[Head(kmp_file_paths)].text],
                               Head(kmp_file_paths),
                               determine_module_name(PathName[Head(kmp_file_paths)]))
                 \o extract_kmp_symbols_Tolerant(disk, Tail(kmp_file_paths)).value)
         ELSE extract_kmp_symbols_Tolerant(disk, Tail(kmp_file_paths))

\* extract_kmp_symbols: the symbols of the files one after the other, an
\* error at the first file that cannot be read
RECURSIVE extract_kmp_symbols(_, _)
extract_kmp_symbols(disk, kmp_file_paths) ==
    IF kmp_file_paths = <<>> THEN Ok(<<>>)
    ELSE LET extracted == extract_symbols(disk, Head(kmp_file_paths),
                                          determine_module_name(PathName[Head(kmp_file_paths)]))
             rest      == extract_kmp_symbols(disk, Tail(kmp_file_paths))
         IN  IF extracted.ok /\ rest.ok THEN Ok(extracted.value \o rest.value)
             ELSE Err

(***************************************************************************)
(* Line counting                                                           *)
(***************************************************************************)
K_funSp == <<"f","u","n"," ">>
K_valSp == <<"v","a","l"," ">>
K_varSp == <<"v","a","r"," ">>
K_funcSp == <<"f","u","n","c"," ">>
K_letSp == <<"l","e","t"," ">>

\* is_kotlin_comment, is_java_comment, is_swift_comment, is_objc_comment on a
\* trimmed line: the same test in the four
is_comment(trimmed) ==
    \/ starts_with(trimmed, P_LineComment)
    \/ starts_with(trimmed, P_BlockComment)
    \/ starts_with(trimmed, P_Star)

\* the filter of the four counters on a trimmed line
is_code_line(trimmed) == trimmed # <<>> /\ ~is_comment(trimmed)

\* the counter count_code_lines picks by its heuristics
line_counter(c, platform) ==
    IF platform = "Android"
    THEN IF str_contains(c, K_funSp) \/ str_contains(c, K_valSp) \/ str_contains(c, K_varSp)
         THEN "count_kotlin_lines" ELSE "count_java_lines"
    ELSE IF str_contains(c, K_funcSp) \/ str_contains(c, K_letSp) \/ str_contains(c, K_varSp)
         THEN "count_swift_lines" ELSE "count_objc_lines"

\* count_kotlin_lines, count_java_lines, count_swift_lines, count_objc_lines:
\* whichever the counter, the lines that are neither blank nor comment
count_lines(counter, ls) ==
    Cardinality({k \in 1..Len(ls) : is_code_line(trim(ls[k]))})

count_code_lines(c, platform) ==
    count_lines(line_counter(c, platform), lines(c))

\* count_code_lines on every content of the library
LineTable ==
    [c \in ContentLib |-> [platform \in {"Android", "iOS"} |-> count_code_lines(c, platform)]]

\* CodeLinesOf with a file that cannot be read counted as one line
CodeLinesOf_UnreadableCounted(disk, file_path, platform) ==
    IF disk[file_path].ok THEN LineTable[disk[file_path].text][platform] ELSE 1

\* the contribution of one path to a line total: nothing when it cannot be read
CodeLinesOf(disk, file_path, platform) ==
    IF disk[file_path].ok THEN LineTable[disk[file_path].text][platform] ELSE 0

(***************************************************************************)
(* DetectUsageUseCase, AnalyzeImpactUseCase                                *)
(***************************************************************************)
\* the paths ending in .kt (the others end in .swift)
KotlinPaths == {"K1", "A1", "A2"}

detect_language(file_path) ==
    IF file_path \in KotlinPaths THEN "Kotlin" ELSE "Swift"

\* what discovery may return: both platforms with files; an iOS project
\* without a source file
ProjBoth ==
    [kmp_files |-> <<"K1">>,
     app_files |-> [Android |-> <<"A1", "A2">>, iOS |-> <<"I1">>]]
ProjNoIosFiles ==
    [kmp_files |-> <<"K1">>,
     app_files |-> [Android |-> <<"A1">>, iOS |-> <<>>]]

\* discovery puts the second Kotlin file into the shared module
ProjSharedPair ==
    [kmp_files |-> <<"K1", "A2">>,
     app_files |-> [Android |-> <<"A1">>, iOS |-> <<"I1">>]]

Projects == {ProjBoth, ProjNoIosFiles, ProjSharedPair}

\* the values of app_files one after the other, in the iteration order
RECURSIVE FilesInOrder(_, _)
FilesInOrder(app_files, order) ==
    IF order = <<>> THEN <<>>
    ELSE app_files[Head(order)] \o FilesInOrder(app_files, Tail(order))

\* detect_symbol_usage: the usage records of one entry of the returned map
UsagesOf(symbol_usage) ==
    [k \in 1..Len(symbol_usage.usage_lines) |->
        [symbol_name |-> symbol_usage.symbol_name,
         file_path   |-> symbol_usage.usage_lines[k].file,
         line_number |-> symbol_usage.usage_lines[k].line]]

\* all_usages after the usages of one file are pushed
AggregateUsages(all_usages, map) ==
    [n \in DOMAIN all_usages \cup DOMAIN map |->
        (IF n \in DOMAIN all_usages THEN all_usages[n] ELSE <<>>)
        \o (IF n \in DOMAIN map THEN UsagesOf(map[n]) ELSE <<>>)]

SymbolNames(syms) == [k \in 1..Len(syms) |-> syms[k].name]

\* the files of the usages of the symbols of a list, one entry per usage
RECURSIVE FilesOfUsages(_, _)
FilesOfUsages(all_usages, names) ==
    IF names = <<>> THEN <<>>
    ELSE [k \in 1..Len(all_usages[Head(names)]) |-> all_usages[Head(names)][k].file_path]
         \o FilesOfUsages(all_usages, Tail(names))

\* get_affected_files collecting into a list instead of a set
get_affected_files_PerUsage(all_usages) ==
    {FilesOfUsages(all_usages, o) : o \in Orders(DOMAIN all_usages)}

\* get_affected_files: the files of the usages, each once, in the order the
\* set hands them out
get_affected_files(all_usages) ==
    Orders(UNION {{all_usages[n][k].file_path : k \in 1..Len(all_usages[n])} :
                     n \in DOMAIN all_usages})

platform_direct(direct_files, files) ==
    {f \in Range(direct_files) : f \in Range(files)}

\* platform_transitive without the restriction to the files of the platform
platform_transitive_Unfiltered(transitive_files, files) ==
    transitive_files

platform_transitive(transitive_files, files) ==
    {f \in transitive_files : f \in Range(files)}

\* the code lines of the readable files of a set, each file once
RECURSIVE SetLines(_, _, _)
SetLines(disk, S, platform) ==
    IF S = {} THEN 0
    ELSE LET f == CHOOSE x \in S : TRUE
         IN  CodeLinesOf(disk, f, platform) + SetLines(disk, S \ {f}, platform)

\* ImpactAnalysis::calculate_impact_ratio, PlatformImpact::calculate_impact_ratio:
\* the quotient as numerator and denominator, 0.0 left in place without lines
calculate_impact_ratio(affected_lines, total_lines) ==
    IF total_lines > 0 THEN [num |-> affected_lines, den |-> total_lines]
    ELSE ZeroRatio

\* PlatformImpact::new followed by calculate_impact_ratio
PlatformImpact(platform, total_files, total_lines, affected_files, affected_lines) ==
    [platform_name  |-> platform,
     total_files    |-> total_files,
     total_lines    |-> total_lines,
     affected_files |-> affected_files,
     affected_lines |-> affected_lines,
     impact_ratio   |-> calculate_impact_ratio(affected_lines, total_lines)]

\* PlatformImpactFrom listing the indirect files among the affected files
PlatformImpactFrom_ListsIndirect(disk, platform, files, direct, indirect) ==
    PlatformImpact(platform, Len(files),
                   SeqSum([k \in 1..Len(files) |-> CodeLinesOf(disk, files[k], platform)]),
                   direct \cup indirect,
                   SetLines(disk, direct, platform) + SetLines(disk, indirect, platform))

\* the PlatformImpact of one platform from its direct and indirect files
PlatformImpactFrom(disk, platform, files, direct, indirect) ==
    PlatformImpact(platform, Len(files),
                   SeqSum([k \in 1..Len(files) |-> CodeLinesOf(disk, files[k], platform)]),
                   direct,
                   SetLines(disk, direct, platform) + SetLines(disk, indirect, platform))

\* the PlatformImpact of one platform
PlatformImpactOf(disk, platform, files, direct_files, transitive_files) ==
    PlatformImpactFrom(disk, platform, files,
                       platform_direct(direct_files, files),
                       platform_transitive(transitive_files, files))

calculate_platform_impacts(disk, app_files, direct_files, transitive_files) ==
    [platform \in DOMAIN app_files |->
        PlatformImpactOf(disk, platform, app_files[platform],
                         direct_files, transitive_files)]

\* SumOver stopping after the first platform
SumOver_One(f, S) ==
    IF S = {} THEN 0 ELSE f[CHOOSE y \in S : TRUE]

\* a sum over the platforms of a map of numbers
RECURSIVE SumOver(_, _)
SumOver(f, S) ==
    IF S = {} THEN 0
    ELSE LET x == CHOOSE y \in S : TRUE IN f[x] + SumOver(f, S \ {x})

\* ImpactAnalysis::new followed by calculate_impact_ratio
ImpactAnalysis(total_symbols, total_app_files, total_app_lines, affected_files, affected_lines, platform_impacts, all_usages) ==
    [total_symbols    |-> total_symbols,
     total_app_files  |-> total_app_files,
     total_app_lines  |-> total_app_lines,
     affected_files   |-> affected_files,
     affected_lines   |-> affected_lines,
     impact_ratio     |-> calculate_impact_ratio(affected_lines, total_app_lines),
     platform_impacts |-> platform_impacts,
     symbol_usages    |-> all_usages]

\* step 6 of execute: the totals over the platforms and the ImpactAnalysis
AnalysisFrom(impacts, app_files, syms, all_usages, direct_files) ==
    ImpactAnalysis(Len(syms),
                   SumOver([p \in DOMAIN app_files |-> Len(app_files[p])], DOMAIN app_files),
                   SumOver([p \in DOMAIN impacts |-> impacts[p].total_lines], DOMAIN impacts),
                   Range(direct_files),
                   SumOver([p \in DOMAIN impacts |-> impacts[p].affected_lines],
                           DOMAIN impacts),
                   impacts, all_usages)

\* steps 5 and 6 of execute: the ImpactAnalysis returned
impact_analysis(disk, proj, syms, all_usages, direct_files, transitive_files) ==
    AnalysisFrom(calculate_platform_impacts(disk, proj.app_files,
                                            direct_files, transitive_files),
                 proj.app_files, syms, all_usages, direct_files)

\* the entries top_symbols keeps
TopLimit == 10

\* calculate_top_symbols: the usages of a symbol in the files of the platform
CountIn(all_usages, symbol_name, platform_files) ==
    Cardinality({k \in 1..Len(all_usages[symbol_name]) :
                    all_usages[symbol_name][k].file_path \in Range(platform_files)})

\* symbol_counts: the symbols with a usage in the files of the platform
symbol_counts(all_usages, platform_files) ==
    [n \in {m \in DOMAIN all_usages : CountIn(all_usages, m, platform_files) > 0} |->
        CountIn(all_usages, n, platform_files)]

\* the entries of counts over S with the smallest count first
RECURSIVE AscendingOrders(_, _)
AscendingOrders(counts, S) ==
    IF S = {} THEN {<<>>}
    ELSE UNION {{<<<<n, counts[n]>>>> \o t : t \in AscendingOrders(counts, S \ {n})} :
                   n \in {m \in S : \A x \in S : counts[m] <= counts[x]}}

\* sort_by(|a, b| b.1.cmp(&a.1)) on the entries of a HashMap: the stable
\* sort leaves entries of equal count in the order the map hands them out,
\* which is any order
RECURSIVE SortedOrders(_, _)
SortedOrders(counts, S) ==
    IF S = {} THEN {<<>>}
    ELSE UNION {{<<<<n, counts[n]>>>> \o t : t \in SortedOrders(counts, S \ {n})} :
                   n \in {m \in S : \A x \in S : counts[x] <= counts[m]}}

\* Vec::truncate
truncate(v, len) == IF Len(v) > len THEN SubSeq(v, 1, len) ELSE v

\* calculate_top_symbols sorting by increasing count
calculate_top_symbols_Ascending(all_usages, platform_files) ==
    {truncate(sorted, TopLimit) :
        sorted \in AscendingOrders(symbol_counts(all_usages, platform_files),
                                   DOMAIN symbol_counts(all_usages, platform_files))}

\* calculate_top_symbols: the lists it can return
calculate_top_symbols(all_usages, platform_files) ==
    {truncate(sorted, TopLimit) :
        sorted \in SortedOrders(symbol_counts(all_usages, platform_files),
                                DOMAIN symbol_counts(all_usages, platform_files))}

\* the top_symbols calculate_platform_impacts can store, platform by platform
TopSymbolChoices(all_usages, app_files) ==
    {[p \in DOMAIN app_files |-> IF p = "Android" THEN android ELSE ios] :
        android \in (IF "Android" \in DOMAIN app_files
                     THEN calculate_top_symbols(all_usages, app_files["Android"])
                     ELSE {<<>>}),
        ios \in (IF "iOS" \in DOMAIN app_files
                 THEN calculate_top_symbols(all_usages, app_files["iOS"])
                 ELSE {<<>>})}

\* the ImpactAnalysis with impact.top_symbols set for every platform
WithTopSymbols(analysis, tops) ==
    [analysis EXCEPT !.platform_impacts =
        [p \in DOMAIN analysis.platform_impacts |->
            analysis.platform_impacts[p] @@ [top_symbols |-> tops[p]]]]

\* all_files of step 4: the shared files, then the files of every platform
AllFiles == project.kmp_files \o FilesInOrder(project.app_files, platform_order)

(***************************************************************************)
(* Specification Spec: execute called again and again through one          *)
(* AnalyzeImpactUseCase on the same repositories; between two calls a      *)
(* file may change on disk                                                 *)
(***************************************************************************)
\* the most execute calls on the same repositories
MaxRuns == 2

\* step 1: discovery returns the shared files and the files per platform
FindFiles ==
    /\ pc = "idle"
    /\ runs < MaxRuns
    /\ project' \in Projects
    /\ platform_order' \in Orders(DOMAIN project'.app_files)
    /\ runs' = runs + 1
    /\ edited' = FALSE
    /\ pc' = "extract"
    /\ UNCHANGED <<symbols, symbol_usages, todo, source_file, direct_affected_files,
                   result, fs, usageVars, graphVars, threadVars, bfsVars>>

\* step 2: ExtractSymbolsUseCase::execute
ExtractSymbols ==
    /\ pc = "extract"
    /\ LET extracted == extract_kmp_symbols(fs, project.kmp_files)
       IN  IF extracted.ok
           THEN /\ symbols' = extracted.value
                /\ todo' = FilesInOrder(project.app_files, platform_order)
                /\ pc' = "detect"
           ELSE /\ pc' = "failed"
                /\ UNCHANGED <<symbols, todo>>
    /\ UNCHANGED <<runs, edited, project, platform_order, symbol_usages, source_file,
                   direct_affected_files, result, fs, usageVars, graphVars, threadVars, bfsVars>>

\* step 3, one application file: read it, detect the usages, aggregate them
DetectFile ==
    /\ pc = "detect"
    /\ todo # <<>>
    /\ LET file_path == Head(todo)
       IN  IF ~fs[file_path].ok
           THEN /\ pc' = "failed"
                /\ UNCHANGED <<todo, source_file, symbol_usages, usageVars>>
           ELSE /\ source_file' = file_path
                /\ content' = fs[file_path].text
                /\ kmp_symbols' = SymbolNames(symbols)
                /\ comment_prefixes' = get_comment_prefixes(detect_language(file_path))
                /\ usages' = Returned(detect_usage_with_patterns(content', file_path,
                                                                 kmp_symbols',
                                                                 comment_prefixes'))
                /\ symbol_usages' = AggregateUsages(symbol_usages, usages'.map)
                /\ todo' = Tail(todo)
                /\ pc' = "detect"
    /\ UNCHANGED <<runs, edited, project, platform_order, symbols,
                   direct_affected_files, result, fs, graphVars, threadVars, bfsVars>>

\* the end of step 3: get_affected_files
AffectedFiles ==
    /\ pc = "detect"
    /\ todo = <<>>
    /\ direct_affected_files' \in get_affected_files(symbol_usages)
    /\ pc' = "graph"
    /\ UNCHANGED <<runs, edited, project, platform_order, symbols, symbol_usages, todo,
                   source_file, result, fs, usageVars, graphVars, threadVars, bfsVars>>

\* step 4, build_graph: build on the graph the repository holds
BuildGraph ==
    /\ pc = "graph"
    /\ BuildCall(AllFiles)
    /\ pc' = IF build_result' = "ok" THEN "transitive" ELSE "failed"
    /\ UNCHANGED <<built_files, builds, runs, edited, callVars>>

\* calculate_transitive free to start before build_graph has run
CalculateTransitive_BeforeBuild ==
    /\ pc \in {"graph", "transitive"}
    /\ BfsStart(Range(direct_affected_files))

\* step 4, calculate_transitive: the traversal is started
CalculateTransitive ==
    /\ pc = "transitive"
    /\ BfsStart(Range(direct_affected_files))

\* steps 5 and 6 once the traversal has returned: Ok(impact_analysis)
CalculateImpacts ==
    /\ pc = "transitive"
    /\ bfs_pc = "done"
    /\ \E tops \in TopSymbolChoices(symbol_usages, project.app_files) :
          result' = WithTopSymbols(impact_analysis(fs, project, symbols, symbol_usages,
                                                  direct_affected_files, transitive),
                                   tops)
    /\ pc' = "done"
    /\ UNCHANGED <<runs, edited, project, platform_order, symbols, symbol_usages, todo,
                   source_file, direct_affected_files, fs, usageVars, graphVars, threadVars, bfsVars>>

\* the call is over: its locals are gone, the repositories stay
Return ==
    /\ pc \in {"done", "failed"}
    /\ pc' = "idle"
    /\ project' = NoProject
    /\ platform_order' = <<>>
    /\ symbols' = <<>>
    /\ symbol_usages' = EmptyMap
    /\ todo' = <<>>
    /\ source_file' = ""
    /\ direct_affected_files' = <<>>
    /\ result' = NoResult
    /\ content' = <<>>
    /\ kmp_symbols' = <<>>
    /\ comment_prefixes' = <<>>
    /\ usages' = NotRun
    /\ direct_impact_files' = {}
    /\ queue' = <<>>
    /\ transitive' = {}
    /\ bfs_pc' = "idle"
    /\ expanded' = [p \in Paths |-> 0]
    /\ UNCHANGED <<runs, edited, fs, graphVars, threadVars>>

\* between two calls one file is rewritten, or becomes unreadable
EditFile ==
    /\ pc = "idle"
    /\ runs >= 1
    /\ runs < MaxRuns
    /\ ~edited
    /\ \E p \in Paths : \E f \in FsChoices[p] \ {fs[p]} :
          fs' = [fs EXCEPT ![p] = f]
    /\ edited' = TRUE
    /\ UNCHANGED <<pc, runs, callVars, usageVars, graphVars, threadVars, bfsVars>>

Init ==
    /\ fs \in FileSystems
    /\ IdleUsage
    /\ IdleGraph
    /\ IdleThreads
    /\ IdleBfs
    /\ IdlePipe

Next ==
    \/ FindFiles
    \/ ExtractSymbols
    \/ DetectFile
    \/ AffectedFiles
    \/ BuildGraph
    \/ CalculateTransitive
    \/ BfsLoop
    \/ BfsReturn
    \/ CalculateImpacts
    \/ Return
    \/ EditFile

Spec == Init /\ [][Next]_vars

(***************************************************************************)
(* Claims on usage detection (specification SpecUsage)                     *)
(***************************************************************************)
\* the symbol name S stands at some position of the line, no identifier
\* character before it, and the character after it is one of ( . : < or white
\* space
DelimitedAndFollowed(line, S) ==
    \E i \in 1..Len(line) :
        /\ i + Len(S) - 1 <= Len(line)
        /\ \A k \in 1..Len(S) : line[i + k - 1] = S[k]
        /\ (i = 1 \/ line[i - 1] \notin WordChar)
        /\ i + Len(S) <= Len(line)
        /\ line[i + Len(S)] \in {"(", ".", ":", "<", " ", "\t"}

\* the line numbers the returned map records for S
RecordedLines(S) ==
    IF S \in DOMAIN usages.map
    THEN {usages.map[S].usage_lines[k].line :
              k \in 1..Len(usages.map[S].usage_lines)}
    ELSE {}

OnlyLine(X) == lines(content) = <<X>>

UserOnly == kmp_symbols = <<W_User>>

C7_Rule ==
    usages.done =>
        \A S \in Range(kmp_symbols) : \A n \in 1..Len(lines(content)) :
            (n \in RecordedLines(S)) <=>
                /\ ~IsSkippedLine(lines(content)[n], comment_prefixes)
                /\ DelimitedAndFollowed(lines(content)[n], S)

\* C7 as stated: a usage of S is recorded on a non-skipped line exactly when
\* S stands there between identifier boundaries followed by ( . : < or white
\* space; so User matches in "User(", "User.", "User:", "User<" and in the
\* line "val x: User", and not in the line "UserRepository".
C7_Original ==
    /\ C7_Rule
    /\ (usages.done /\ UserOnly) =>
          /\ \A X \in {L_UserParen, L_UserDot, L_UserColon, L_UserAngle, L_ValXUser} :
                 OnlyLine(X) => 1 \in RecordedLines(W_User)
          /\ OnlyLine(L_UserRepositoryOnly) => RecordedLines(W_User) = {}

\* C7 as amended: the same rule; User matches in "User(", "User.", "User:",
\* "User<" and in "val x: User = u", where a space follows it, but not in the
\* line "val x: User", where nothing follows it, and not in "UserRepository".
C7_BoundaryMatching ==
    /\ C7_Rule
    /\ (usages.done /\ UserOnly) =>
          /\ \A X \in {L_UserParen, L_UserDot, L_UserColon, L_UserAngle, L_ValXUserEq} :
                 OnlyLine(X) => 1 \in RecordedLines(W_User)
          /\ OnlyLine(L_ValXUser) => RecordedLines(W_User) = {}
          /\ OnlyLine(L_UserRepositoryOnly) => RecordedLines(W_User) = {}

C7_Witness ==
    /\ usages.done
    /\ UserOnly
    /\ OnlyLine(L_ValXUserEq)
    /\ usages.map[W_User].reference_count = 1

(***************************************************************************)
(* Claims on the traversal (specifications SpecGraph, FairSpecGraph)       *)
(***************************************************************************)
\* the files that import f, by the reverse map
Dependents(f) == MapGet(reverse_dependencies, f)

\* the least set that holds S and, by the reverse map rev, the dependents of
\* its members
RECURSIVE ClosureIn(_, _)
ClosureIn(rev, S) ==
    LET next == S \cup UNION {MapGet(rev, f) : f \in S}
    IN  IF next = S THEN S ELSE ClosureIn(rev, next)

ReverseClosure(S) == ClosureIn(reverse_dependencies, S)

\* some direct file is a dependent of another direct file
DirectReachedFromDirect ==
    \E d1, d2 \in direct_impact_files : d1 # d2 /\ d2 \in Dependents(d1)

\* C2: whatever the graph holds (nothing, the edges of one or several builds,
\* cycles, self-imports) and whatever the direct set D, the set that
\* compute_transitive_impact(D) returns has no element of D.
C2_TransitiveExcludesDirect ==
    bfs_pc = "done" => transitive \cap direct_impact_files = {}

\* a traversal has returned where a direct file was reached again from
\* another direct file
C2_Witness ==
    /\ bfs_pc = "done"
    /\ DirectReachedFromDirect
    /\ \E f \in Paths : f \in Dependents(f)

\* C3: compute_transitive_impact(D) returns exactly the files reachable from
\* a member of D over zero or more reverse edges, minus D: a member of D that
\* another member reaches through a cycle is left out, and every file outside
\* D that transitively imports a member of D is in.
C3_ExactlyReverseReachable ==
    bfs_pc = "done" =>
        transitive = ReverseClosure(direct_impact_files) \ direct_impact_files

\* a traversal has returned a file two reverse edges away from the direct
\* set, and left out a direct file that another direct file reaches
C3_Witness ==
    /\ bfs_pc = "done"
    /\ DirectReachedFromDirect
    /\ \E f \in transitive :
           \A d \in direct_impact_files : f \notin Dependents(d)

\* C4: the loop of compute_transitive_impact comes to its end on every graph
\* and every direct set, cycles and self-imports included, and no file has
\* its dependents expanded more than once, even when the queue holds it
\* several times.
C4_BfsTerminates ==
    /\ [](\A f \in Paths : expanded[f] <= 1)
    /\ (bfs_pc = "loop") ~> (bfs_pc = "done")

\* a traversal has returned after the queue held a visited file of a cycle
C4_Witness ==
    /\ bfs_pc = "done"
    /\ \E a, b \in Paths :
           /\ a # b
           /\ a \in Dependents(b) /\ b \in Dependents(a)
           /\ expanded[a] = 1 /\ expanded[b] = 1
           /\ a \in direct_impact_files /\ b \in direct_impact_files

(***************************************************************************)
(* Claims on build (specifications SpecGraph, SpecBuild)                   *)
(***************************************************************************)
\* C5: after any sequence of build calls on one DependencyGraph, a call that
\* returned an error part-way and repeated calls included, every forward edge
\* has its mirror: Y in forward[X] implies X in reverse[Y].
C5_ForwardEdgesMirrored ==
    \A X \in DOMAIN dependencies : \A Y \in dependencies[X] :
        Y \in DOMAIN reverse_dependencies /\ X \in reverse_dependencies[Y]

\* a build has returned an error after it added edges, two files importing
\* the same file
C5_Witness ==
    /\ build_result = "err"
    /\ \E X1, X2 \in DOMAIN dependencies :
           X1 # X2 /\ dependencies[X1] \cap dependencies[X2] # {}

\* the package-qualified name file Y declares: its package P, a dot, its
\* primary type T
DeclaredName(Y) ==
    ParseTable[fs[Y].text].package \o <<".">> \o ParseTable[fs[Y].text].primary.name

\* Y declares a package and a primary type
DeclaresPackagedType(Y) ==
    /\ fs[Y].ok
    /\ ParseTable[fs[Y].text].package # <<>>
    /\ ParseTable[fs[Y].text].primary.found

\* X has an import that is exactly name, and no other import of X resolves
ImportsOnly(X, name) ==
    /\ fs[X].ok
    /\ name \in Range(ParseTable[fs[X].text].imports)
    /\ \A import \in Range(ParseTable[fs[X].text].imports) :
           import # name => ~resolve_import(package_map, <<>>, import).found
                            /\ \A k \in DOMAIN package_map : ~starts_with(k, import)

\* one build of the two files X and Y, in either order, on an empty graph
BuiltOnceFrom(X, Y) ==
    /\ builds = 1
    /\ built_files \in {<<X, Y>>, <<Y, X>>}

\* the scenario of C9 for the files X and Y
C9_Scenario(X, Y) ==
    /\ X # Y
    /\ BuiltOnceFrom(X, Y)
    /\ DeclaresPackagedType(Y)
    /\ ImportsOnly(X, DeclaredName(Y))

C9_Edges(X, Y) ==
    /\ X \in DOMAIN dependencies /\ dependencies[X] = {Y}
    /\ Y \in DOMAIN reverse_dependencies /\ reverse_dependencies[Y] = {X}

\* C9 as stated: Y declares package P and primary type T, X has an import
\* that is exactly P.T and no other resolvable import; after build of X and Y
\* in either order on an empty graph, forward[X] = {Y} and reverse[Y] = {X}.
C9_Original ==
    \A X, Y \in Paths : C9_Scenario(X, Y) => C9_Edges(X, Y)

\* X does not declare the same name, and Y imports neither that name nor a
\* prefix of it
C9_NoOtherClaimOnName(X, Y) ==
    /\ ~(ParseTable[fs[X].text].primary.found
          /\ ParseTable[fs[X].text].package \o <<".">>
               \o ParseTable[fs[X].text].primary.name = DeclaredName(Y))
    /\ \A import \in Range(ParseTable[fs[Y].text].imports) :
           ~starts_with(DeclaredName(Y), import)

\* C9, amended: in the same scenario, when X does not itself declare P.T and
\* Y has no import that is P.T or a prefix of it, after build of X and Y in
\* either order on an empty graph forward[X] = {Y} and reverse[Y] = {X}.
C9_ImportEdge ==
    \A X, Y \in Paths :
        (C9_Scenario(X, Y) /\ C9_NoOtherClaimOnName(X, Y)) => C9_Edges(X, Y)

\* the amended scenario has been built, Y listed before X, Y importing X
C9_Witness ==
    \E X, Y \in Paths :
        /\ C9_Scenario(X, Y) /\ C9_NoOtherClaimOnName(X, Y)
        /\ built_files = <<Y, X>>
        /\ Y \in DOMAIN dependencies /\ dependencies[Y] = {X}

(***************************************************************************)
(* Claims on execute (specification Spec)                                  *)
(***************************************************************************)
RatioInUnitInterval(ratio) == 0 <= ratio.num /\ ratio.num <= ratio.den

\* C1: in every result execute returns, each platform entry and the overall
\* figures have affected_lines <= total_lines, and 0.0 <= impact_ratio <= 1.0
\* when total_lines > 0, whatever the file lists, the direct set and the graph
\* (cycles, transitive sets with shared-module files or files of the other
\* platform).
C1_RatioBounds ==
    pc = "done" =>
        /\ \A p \in DOMAIN result.platform_impacts :
              LET impact == result.platform_impacts[p]
              IN  /\ impact.affected_lines <= impact.total_lines
                  /\ impact.total_lines > 0 => RatioInUnitInterval(impact.impact_ratio)
        /\ result.affected_lines <= result.total_app_lines
        /\ result.total_app_lines > 0 => RatioInUnitInterval(result.impact_ratio)

\* a result was returned where the transitive set holds a file of each
\* platform, the Android files import each other, and every Android line is
\* affected
C1_Witness ==
    /\ pc = "done"
    /\ {"A2", "I1"} \subseteq transitive
    /\ "A1" \in Dependents("A2") /\ "A2" \in Dependents("A1")
    /\ result.platform_impacts["Android"].total_lines > 0
    /\ result.platform_impacts["Android"].affected_lines
          = result.platform_impacts["Android"].total_lines

\* the transitive sets a call on freshly constructed repositories can compute
\* for the project and the disk of the call in progress
FreshTransitiveSets ==
    {ClosureIn(build(EmptyGraph, key_order, fs, AllFiles).graph.reverse_dependencies,
               Range(direct_affected_files)) \ Range(direct_affected_files) :
        key_order \in KeyOrders(EmptyGraph, fs, AllFiles)}

\* C6: no dependency-graph state crosses runs: when execute is called again
\* on the same repositories, the transitive-impact set and affected_lines of
\* the call are those of a call on freshly constructed repositories; no
\* package-index entry or reverse edge of an earlier call has influence.
C6_NoGraphStateCrossesRuns ==
    pc = "done" =>
        \E fresh \in FreshTransitiveSets :
            /\ transitive = fresh
            /\ result.affected_lines
                  = impact_analysis(fs, project, symbols, symbol_usages,
                                    direct_affected_files, fresh).affected_lines

SymFoo ==
    [name |-> W_Foo, symbol_type |-> "Class", module |-> <<"s","h","a","r","e","d">>,
     file_path |-> "K1", is_public |-> TRUE]
SymBar ==
    [name |-> W_bar, symbol_type |-> "Function", module |-> <<"s","h","a","r","e","d">>,
     file_path |-> "K1", is_public |-> TRUE]

\* the lines of content c, not skipped, that reference S
ReferenceLines(c, S, prefixes) ==
    {n \in 1..Len(lines(c)) :
        ~IsSkippedLine(lines(c)[n], prefixes) /\ DelimitedAndFollowed(lines(c)[n], S)}

\* the shared file declared class Foo and function bar, and application file
\* F references each on exactly one line
C8_Scenario(F) ==
    /\ symbols = <<SymFoo, SymBar>>
    /\ F \in Range(FilesInOrder(project.app_files, platform_order))
    /\ fs[F].ok
    /\ \A S \in {W_Foo, W_bar} :
          Cardinality(ReferenceLines(fs[F].text, S,
                                     get_comment_prefixes(detect_language(F)))) = 1

\* C8: a shared file declares class Foo and function bar, an application file
\* references each on exactly one non-comment line: detection on that file
\* yields reference_count 1 for Foo and for bar, both with the file in
\* used_in_files, and get_affected_files holds the file exactly once.
C8_FooBarScenario ==
    /\ (pc = "detect" /\ usages.done /\ C8_Scenario(source_file)) =>
          \A S \in {W_Foo, W_bar} :
              /\ S \in DOMAIN usages.map
              /\ usages.map[S].reference_count = 1
              /\ source_file \in usages.map[S].used_in_files
    /\ \A F \in Paths :
          (pc \in {"graph", "transitive", "done"} /\ C8_Scenario(F)) =>
              Cardinality({k \in 1..Len(direct_affected_files) :
                              direct_affected_files[k] = F}) = 1

\* the scenario went through detection and get_affected_files
C8_Witness ==
    /\ pc = "graph"
    /\ usages.done
    /\ source_file = "A1"
    /\ C8_Scenario("A1")
    /\ usages.map[W_Foo].reference_count = 1
    /\ direct_affected_files = <<"A1">>

\* the code lines of the files of platform p as the disk has them
LinesOnDisk(p) ==
    SeqSum([k \in 1..Len(project.app_files[p]) |->
               CodeLinesOf(fs, project.app_files[p][k], p)])

KmpFilesReadable == \A f \in Range(project.kmp_files) : fs[f].ok

\* C10: a platform whose total_lines is 0 (no files, only blank or comment
\* files, or all files unreadable) gets impact_ratio 0.0 and the analysis
\* completes without error; the overall impact_ratio is 0.0 when
\* total_app_lines is 0.
C10_ZeroLinesGuard ==
    (pc \in {"done", "failed"} /\ KmpFilesReadable) =>
        /\ \A p \in DOMAIN project.app_files :
              LinesOnDisk(p) = 0 =>
                  /\ pc = "done"
                  /\ result.platform_impacts[p].impact_ratio.num = 0
        /\ (pc = "done" /\ result.total_app_lines = 0) =>
              result.impact_ratio.num = 0

(***************************************************************************)
(* Error handling of execute                                               *)
(***************************************************************************)
\* the application files of the call that detection has not reached yet
DetectionPending == pc \in {"detect", "failed"} /\ todo # <<>>

\* C11: an application file that cannot be read while
\* DetectUsageUseCase::execute scans the files is skipped and the run does
\* not abort: the call never fails with application files still to scan.
C11_DetectionSkipsUnreadable ==
    DetectionPending => pc # "failed"

(***************************************************************************)
(* Specification SpecImpacts: steps 5 and 6 of execute on bounded inputs:  *)
(* any disk, either project, any direct list and transitive set            *)
(***************************************************************************)
\* the paths of the application files
AppPaths == {"A1", "A2", "I1"}

\* the direct lists: application files, each once, in any order
DirectLists == UNION {Orders(S) : S \in SUBSET AppPaths}

InitImpacts ==
    /\ fs \in FileSystems
    /\ IdleUsage
    /\ IdleGraph
    /\ IdleThreads
    /\ IdleBfs
    /\ IdlePipe

\* calculate_platform_impacts and the aggregation on chosen inputs
CallImpacts ==
    /\ pc = "idle"
    /\ project' \in Projects
    /\ direct_affected_files' \in DirectLists
    /\ transitive' \in SUBSET Paths
    /\ \E tops \in TopSymbolChoices(symbol_usages, project'.app_files) :
          result' = WithTopSymbols(impact_analysis(fs, project', symbols, symbol_usages,
                                                  direct_affected_files', transitive'),
                                   tops)
    /\ pc' = "done"
    /\ UNCHANGED <<runs, edited, platform_order, symbols, symbol_usages, todo, source_file,
                   fs, usageVars, graphVars, threadVars, direct_impact_files, queue, bfs_pc, expanded>>

NextImpacts == CallImpacts \/ Return

SpecImpacts == InitImpacts /\ [][NextImpacts]_vars

(***************************************************************************)
(* Line counting                                                           *)
(***************************************************************************)
\* a list without the paths that cannot be read
ReadableOf(files) == SelectSeq(files, LAMBDA f : fs[f].ok)

\* the project with the unreadable files taken out of every platform
ReadableAppFiles == [p \in DOMAIN project.app_files |-> ReadableOf(project.app_files[p])]

\* the per-platform figures had the unreadable files not been there at all
ImpactsOfReadable ==
    calculate_platform_impacts(fs, ReadableAppFiles, ReadableOf(direct_affected_files),
                               {f \in transitive : fs[f].ok})

HasUnreadable(files) == \E k \in 1..Len(files) : ~fs[files[k]].ok

\* C12: in calculate_platform_impacts a platform file that cannot be read
\* contributes 0 to total_lines and 0 to affected_lines, the other files are
\* still counted and no error is returned: the line figures are those of the
\* same call without the unreadable files.
C12_UnreadableCountsZero ==
    pc = "done" =>
        \A p \in DOMAIN project.app_files :
            /\ result.platform_impacts[p].total_lines = ImpactsOfReadable[p].total_lines
            /\ result.platform_impacts[p].affected_lines = ImpactsOfReadable[p].affected_lines

\* an unreadable affected file next to a readable one that is counted
C12_Witness ==
    /\ pc = "done"
    /\ project = ProjBoth
    /\ ~fs["A1"].ok
    /\ fs["A2"].ok
    /\ "A1" \in Range(direct_affected_files)
    /\ "A2" \in transitive
    /\ result.platform_impacts["Android"].total_lines > 0
    /\ result.platform_impacts["Android"].affected_lines
           = result.platform_impacts["Android"].total_lines

\* C13: symbol extraction is fail-fast. With an unreadable file in the list
\* of shared files extract_kmp_symbols returns an error and no symbol, those
\* of the files before it included, and execute returns that error: usage
\* detection, graph building and impact calculation do not run.
C13_ExtractionFailFast ==
    [][/\ (pc = "extract" /\ ~KmpFilesReadable) =>
              /\ pc' = "failed"
              /\ symbols' = <<>>
              /\ UNCHANGED <<symbol_usages, todo, direct_affected_files, result,
                             usageVars, graphVars, threadVars, bfsVars>>
       /\ pc = "failed" => pc' = "idle"]_vars

\* the second shared file cannot be read, the first one declares symbols
C13_Witness ==
    /\ pc = "failed"
    /\ project = ProjSharedPair
    /\ fs["K1"].ok
    /\ SymbolTable[fs["K1"].text] # <<>>
    /\ ~fs["A2"].ok
    /\ symbols = <<>>
    /\ todo = <<>>
    /\ usages = NotRun

(***************************************************************************)
(* Usages and counted lines                                                *)
(***************************************************************************)
\* the application files with a usage record in symbol_usages
FilesWithUsage ==
    UNION {{symbol_usages[n][k].file_path : k \in 1..Len(symbol_usages[n])} :
              n \in DOMAIN symbol_usages}

\* the lines of the file scanned last on which a usage was recorded
RecordedUsageLines ==
    UNION {{usages.map[n].usage_lines[k].line : k \in 1..Len(usages.map[n].usage_lines)} :
              n \in DOMAIN usages.map}

\* C14: when usage detection records a usage in an application file, the
\* result has a non-empty affected_files, affected_lines > 0 for the
\* platform of that file and an overall impact_ratio > 0; every line a usage
\* is recorded on is a line the code-line counter counts.
C14_UsageMeansImpact ==
    /\ pc = "done" =>
          \A p \in DOMAIN project.app_files :
              \A f \in Range(project.app_files[p]) \cap FilesWithUsage :
                  /\ result.affected_files # {}
                  /\ result.platform_impacts[p].affected_lines > 0
                  /\ result.impact_ratio.num > 0
    /\ usages.done =>
          \A n \in RecordedUsageLines : is_code_line(trim(lines(content)[n]))

\* a run that recorded usages in an Android file and returned a result
C14_Witness ==
    /\ pc = "done"
    /\ "A1" \in FilesWithUsage
    /\ RecordedUsageLines # {}
    /\ result.platform_impacts["Android"].affected_lines > 0
    /\ result.impact_ratio.num > 0

(***************************************************************************)
(* Specification SpecSymbols: extract_kmp_symbols called on a list of      *)
(* files, then again on the same list and the same disk                    *)
(***************************************************************************)
\* the longest list of shared files
MaxSharedFiles == 2

\* the lists handed to extract_kmp_symbols
SharedLists ==
    UNION {[1..n -> {"K1", "A1", "A2"}] : n \in 0..MaxSharedFiles}

InitSymbols ==
    /\ fs \in ExtractFileSystems
    /\ IdleUsage
    /\ IdleGraph
    /\ IdleThreads
    /\ IdleBfs
    /\ IdlePipe

\* the first call
ExtractCall ==
    /\ pc = "idle"
    /\ runs = 0
    /\ \E kmp_file_paths \in SharedLists :
          /\ project' = [kmp_files |-> kmp_file_paths, app_files |-> <<>>]
          /\ symbols' = extract_kmp_symbols(fs, kmp_file_paths).value
          /\ pc' = IF extract_kmp_symbols(fs, kmp_file_paths).ok
                   THEN "extracted" ELSE "failed"
    /\ runs' = 1
    /\ UNCHANGED <<edited, platform_order, symbol_usages, todo, source_file,
                   direct_affected_files, result, fs, usageVars, graphVars, threadVars, bfsVars>>

\* one more call on the same list
ExtractAgain ==
    /\ pc = "extracted"
    /\ runs < MaxRuns
    /\ symbols' = extract_kmp_symbols(fs, project.kmp_files).value
    /\ runs' = runs + 1
    /\ UNCHANGED <<pc, edited, project, platform_order, symbol_usages, todo, source_file,
                   direct_affected_files, result, fs, usageVars, graphVars, threadVars, bfsVars>>

NextSymbols == ExtractCall \/ ExtractAgain

SpecSymbols == InitSymbols /\ [][NextSymbols]_vars

QualifiedAtFileScope(c) ==
    \E k \in 1..Len(lines(c)) :
        starts_with(lines(c)[k], K_privateSp) \/ starts_with(lines(c)[k], K_internalSp)

\* the text contains "internal " or starts with "private "
Marked(c) == str_contains(c, K_internalSp) \/ starts_with(c, K_privateSp)

\* the files of the list that can be read
ReadFiles == {f \in Range(project.kmp_files) : fs[f].ok}

AndroidPlus(android, ios) == android + ios

PlatformTotal(field) ==
    AndroidPlus(IF "Android" \in DOMAIN result.platform_impacts
                THEN result.platform_impacts["Android"][field] ELSE 0,
                IF "iOS" \in DOMAIN result.platform_impacts
                THEN result.platform_impacts["iOS"][field] ELSE 0)

\* C16: the overall figures are the sums of the per-platform figures
\* (total_app_files, total_app_lines, affected_lines) and the overall
\* impact_ratio is affected_lines / total_app_lines of those sums, 0.0 when
\* there is no line.
C16_OverallIsSum ==
    pc = "done" =>
        /\ result.total_app_files = PlatformTotal("total_files")
        /\ result.total_app_lines = PlatformTotal("total_lines")
        /\ result.affected_lines = PlatformTotal("affected_lines")
        /\ result.impact_ratio =
              IF PlatformTotal("total_lines") > 0
              THEN [num |-> PlatformTotal("affected_lines"),
                    den |-> PlatformTotal("total_lines")]
              ELSE ZeroRatio

\* both platforms have lines, and the overall ratio is not the mean of the
\* two platform ratios
C16_Witness ==
    /\ pc = "done"
    /\ result.platform_impacts["Android"].total_lines > 0
    /\ result.platform_impacts["iOS"].total_lines > 0
    /\ result.platform_impacts["Android"].affected_lines > 0
    /\ result.impact_ratio.num = result.platform_impacts["Android"].affected_lines
                                 + result.platform_impacts["iOS"].affected_lines
    /\ 2 * result.impact_ratio.num
         * result.platform_impacts["Android"].total_lines
         * result.platform_impacts["iOS"].total_lines
       # result.impact_ratio.den
         * (result.platform_impacts["Android"].affected_lines
              * result.platform_impacts["iOS"].total_lines
            + result.platform_impacts["iOS"].affected_lines
              * result.platform_impacts["Android"].total_lines)

\* the code lines of the files of a set as the disk has them, each file once
RECURSIVE LinesOfSet(_, _)
LinesOfSet(S, p) ==
    IF S = {} THEN 0
    ELSE LET f == CHOOSE x \in S : TRUE
         IN  (IF fs[f].ok THEN LineTable[fs[f].text][p] ELSE 0) + LinesOfSet(S \ {f}, p)

\* C17: for each platform affected_files is exactly the files of the
\* platform that are in the direct set, and affected_lines is the sum of the
\* code lines over the files of the platform in direct \cup transitive, each
\* file counted once, also when it is reached both directly and through the
\* graph.
C17_AffectedPerPlatform ==
    pc = "done" =>
        \A p \in DOMAIN project.app_files :
            /\ result.platform_impacts[p].affected_files
                  = Range(project.app_files[p]) \cap Range(direct_affected_files)
            /\ result.platform_impacts[p].affected_lines
                  = LinesOfSet(Range(project.app_files[p])
                                  \cap (Range(direct_affected_files) \cup transitive), p)

\* A1 is affected directly and is a dependent of the transitive file A2
C17_Witness ==
    /\ pc = "done"
    /\ project = ProjBoth
    /\ "A1" \in Range(direct_affected_files)
    /\ "A2" \in transitive
    /\ "A1" \in Dependents("A2")
    /\ result.platform_impacts["Android"].affected_files = {"A1"}
    /\ result.platform_impacts["Android"].affected_lines
          = LineTable[fs["A1"].text]["Android"] + LineTable[fs["A2"].text]["Android"]

(***************************************************************************)
(* Specification SpecTop: steps 5 and 6 of execute on usage maps with more *)
(* symbols than top_symbols keeps                                          *)
(***************************************************************************)
\* the symbols of the usage maps
MaxTopNames == 12

\* the symbols whose usages are the same in every map: symbol i is used i
\* times in the Android file A1
NumFixed == 9

NameLetters == <<"a","b","c","d","e","f","g","h","i","j","k","l","m","n","o","p">>

TopName(i) == <<"s", NameLetters[i]>>

\* the usages of the other symbols: how many in A1, how many in I1
UsageProfiles == {<<0, 0>>, <<1, 0>>, <<0, 1>>, <<2, 1>>, <<10, 0>>}

\* the usage records of a symbol used android times in A1 and ios times in I1
UsagesFor(symbol_name, android, ios) ==
    [k \in 1..(android + ios) |->
        [symbol_name |-> symbol_name,
         file_path   |-> IF k <= android THEN "A1" ELSE "I1",
         line_number |-> k]]

\* all_usages for one choice of profiles: a symbol without usage has no entry
UsageMapOf(profile) ==
    [n \in {TopName(i) : i \in 1..NumFixed}
           \cup {TopName(i) : i \in {j \in (NumFixed + 1)..MaxTopNames :
                                        profile[j][1] + profile[j][2] > 0}} |->
        LET i == CHOOSE j \in 1..MaxTopNames : TopName(j) = n
        IN  IF i <= NumFixed THEN UsagesFor(n, i, 0)
            ELSE UsagesFor(n, profile[i][1], profile[i][2])]

TopUsageInputs ==
    {UsageMapOf(profile) : profile \in [(NumFixed + 1)..MaxTopNames -> UsageProfiles]}

InitTop ==
    /\ fs = [p \in Paths |-> Readable(C_SwiftBlank)]
    /\ IdleUsage
    /\ IdleGraph
    /\ IdleThreads
    /\ IdleBfs
    /\ IdlePipe

\* calculate_platform_impacts and the aggregation on a chosen usage map
CallTopSymbols ==
    /\ pc = "idle"
    /\ project' = ProjBoth
    /\ symbol_usages' \in TopUsageInputs
    /\ \E tops \in TopSymbolChoices(symbol_usages', project'.app_files) :
          result' = WithTopSymbols(impact_analysis(fs, project', symbols, symbol_usages',
                                                  direct_affected_files, transitive),
                                   tops)
    /\ pc' = "done"
    /\ UNCHANGED <<runs, edited, platform_order, symbols, todo, source_file,
                   direct_affected_files, fs, usageVars, graphVars, threadVars, bfsVars>>

NextTop == CallTopSymbols \/ Return

SpecTop == InitTop /\ [][NextTop]_vars

\* the usage records of symbol n in the files of platform p
UsagesInPlatform(n, p) ==
    IF n \in DOMAIN symbol_usages
    THEN Cardinality({k \in 1..Len(symbol_usages[n]) :
                         symbol_usages[n][k].file_path \in Range(project.app_files[p])})
    ELSE 0

TopOf(p) == result.platform_impacts[p].top_symbols

\* C18: for each platform top_symbols has at most 10 entries, the count of
\* an entry is the number of usage records of the symbol in the files of the
\* platform and is at least 1, the entries are in non-increasing order of
\* count, and no symbol left out has a count greater than a symbol listed.
C18_TopSymbols ==
    pc = "done" =>
        \A p \in DOMAIN project.app_files :
            /\ Len(TopOf(p)) <= 10
            /\ \A k \in 1..Len(TopOf(p)) :
                  /\ TopOf(p)[k][2] = UsagesInPlatform(TopOf(p)[k][1], p)
                  /\ TopOf(p)[k][2] >= 1
            /\ \A k \in 1..(Len(TopOf(p)) - 1) : TopOf(p)[k][2] >= TopOf(p)[k + 1][2]
            /\ \A n \in DOMAIN symbol_usages \ {TopOf(p)[k][1] : k \in 1..Len(TopOf(p))} :
                  \A k \in 1..Len(TopOf(p)) : UsagesInPlatform(n, p) <= TopOf(p)[k][2]

\* twelve symbols are used in the Android files: ten are kept, two symbols
\* with usages are left out, and entries of equal count are listed
C18_Witness ==
    /\ pc = "done"
    /\ Cardinality({n \in DOMAIN symbol_usages : UsagesInPlatform(n, "Android") > 0}) = 12
    /\ Len(TopOf("Android")) = 10
    /\ TopOf("Android")[1][2] = 10
    /\ TopOf("Android")[2][2] = 10
    /\ TopOf("Android")[10][2] = 2
    /\ Len(TopOf("iOS")) = 1

(***************************************************************************)
(* Comment and import lines                                                *)
(***************************************************************************)
\* the trimmed line starts with one of the prefixes supplied to the call
StartsWithNonCodePrefix(line) ==
    \E k \in 1..Len(comment_prefixes) : starts_with(trim(line), comment_prefixes[k])

\* the content with every such line emptied
WithoutNonCodeLines ==
    JoinLines([k \in 1..Len(lines(content)) |->
                  IF StartsWithNonCodePrefix(lines(content)[k]) THEN <<>>
                  ELSE lines(content)[k]])

\* C20: no usage record refers to a line whose trimmed text starts with one
\* of the supplied prefixes, and such lines add nothing to reference_count,
\* used_in_files or usage_lines of any symbol: the map returned is the one
\* returned for the content with those lines emptied.
C20_NonCodeLinesIgnored ==
    usages.done =>
        /\ \A n \in DOMAIN usages.map :
              /\ \A k \in 1..Len(usages.map[n].usage_lines) :
                    ~StartsWithNonCodePrefix(lines(content)[usages.map[n].usage_lines[k].line])
              /\ usages.map[n].reference_count = Len(usages.map[n].usage_lines)
        /\ usages.map = detect_usage_with_patterns(WithoutNonCodeLines, UsageFile,
                                                   kmp_symbols, comment_prefixes)

\* a Swift or Objective-C scan of an #import line that names User, next to
\* a line that uses User
C20_Witness ==
    /\ usages.done
    /\ content = JoinLines(<<L_ObjcImport, L_UserParen>>)
    /\ kmp_symbols = <<W_User>>
    /\ P_HashImport \in Range(comment_prefixes)
    /\ usages.map[W_User].reference_count = 1
    /\ usages.map[W_User].usage_lines[1].line = 2

(***************************************************************************)
(* C21: a second build on the same instance                                *)
(***************************************************************************)
\* the graph a fresh instance holds after build of files alone, for one of
\* the orders its package map can be iterated in
FreshGraphs(files) ==
    {build(EmptyGraph, key_order, fs, files).graph : key_order \in KeyOrders(EmptyGraph, fs, files)}

\* C21: build called twice on one instance overwrites the maps rather than
\* merging: after build(F1) and then build(F2) the package map, the forward
\* map and the reverse map hold exactly what a fresh instance holds after
\* build(F2) alone.
C21_RebuildOverwrites ==
    builds = 2 => Graph \in FreshGraphs(built_files)

(***************************************************************************)
(* Specification SpecResolve: build calls on one instance over files whose *)
(* imports are exact keys, prefixes of keys, or neither                    *)
(***************************************************************************)
InitResolve ==
    /\ fs \in ResolveFileSystems
    /\ IdleUsage
    /\ IdleGraph
    /\ IdleThreads
    /\ IdleBfs
    /\ IdlePipe

MaxResolveBuilds == 1

\* a build call on the instance, the argument remembered
ResolveBuild(files) ==
    /\ builds < MaxResolveBuilds
    /\ BuildCall(files)
    /\ built_files' = files
    /\ builds' = builds + 1
    /\ UNCHANGED pipeVars

NextResolve == \E files \in FileLists : ResolveBuild(files)

SpecResolve == InitResolve /\ [][NextResolve]_vars

\* the files of the last build whose imports the edge pass went through: all
\* of the list, or those before the first file it could not read
ProcessedFiles ==
    LET bad == {i \in 1..Len(built_files) : ~fs[built_files[i]].ok}
        n   == IF bad = {} THEN Len(built_files) ELSE SetMin(bad) - 1
    IN  {built_files[i] : i \in 1..n}

\* the keys of the package map that start with the import string
KeysStartingWith(import) == {k \in DOMAIN package_map : starts_with(k, import)}

\* the files the import string may resolve to: the file of the key it equals,
\* else the file of a key that starts with it, else none
ResolutionsOf(import) ==
    IF import \in DOMAIN package_map THEN {package_map[import]}
    ELSE {package_map[k] : k \in KeysStartingWith(import)}

ImportsOf(X) == ParseTable[fs[X].text].imports

\* the forward edges of X are one resolution per import string that has one
OneEdgePerImport(X) ==
    LET resolved == {i \in 1..Len(ImportsOf(X)) : ResolutionsOf(ImportsOf(X)[i]) # {}}
    IN  \E pick \in [resolved -> Paths] :
            /\ \A i \in resolved : pick[i] \in ResolutionsOf(ImportsOf(X)[i])
            /\ dependencies[X] = {pick[i] : i \in resolved}

RegisteredFiles == {package_map[k] : k \in DOMAIN package_map}

\* C22: an import string that is a key of the package map resolves to that
\* key's file even when other keys start with it; otherwise it resolves to the
\* file of some key that starts with it; otherwise it is dropped. So the
\* forward edges of a file are one target per resolved import, each mirrored
\* in the reverse map and each a file registered in the package map, and a
\* build whose files can all be read succeeds whatever its imports resolve to.
C22_ImportResolution ==
    builds >= 1 =>
        /\ (\A i \in 1..Len(built_files) : fs[built_files[i]].ok) => build_result = "ok"
        /\ \A X \in ProcessedFiles :
              /\ X \in DOMAIN dependencies
              /\ OneEdgePerImport(X)
              /\ \A Y \in dependencies[X] :
                     Y \in RegisteredFiles /\ X \in MapGet(reverse_dependencies, Y)
        /\ builds = 1 =>
              \A Y \in Paths :
                  MapGet(reverse_dependencies, Y) =
                      {X \in DOMAIN dependencies : Y \in dependencies[X]}

\* a build has succeeded on files of which one imports a key that another key
\* starts with, one imports a proper prefix of two keys, and one has an import
\* that nothing resolves
C22_Witness ==
    /\ builds >= 1
    /\ build_result = "ok"
    /\ \E X \in ProcessedFiles : \E import \in Range(ImportsOf(X)) :
           import \in DOMAIN package_map /\ Cardinality(KeysStartingWith(import)) > 1
    /\ \E X \in ProcessedFiles : \E import \in Range(ImportsOf(X)) :
           import \notin DOMAIN package_map /\ Cardinality(ResolutionsOf(import)) > 1
    /\ \E X \in ProcessedFiles : \E import \in Range(ImportsOf(X)) :
           ResolutionsOf(import) = {}

(***************************************************************************)
(* C23: occurrences and textual matches                                    *)
(***************************************************************************)
\* the matches of the usage pattern of name in the line, by start position;
\* no two of them overlap, each starting and ending at a word boundary
TextualMatches(line, name) ==
    {i \in 1..Len(line) : UsageMatchAt(line, name, i)}

\* the matches of name in the lines of the content that are not skipped
RECURSIVE MatchesFrom(_, _)
MatchesFrom(name, k) ==
    IF k > Len(lines(content)) THEN 0
    ELSE (IF StartsWithNonCodePrefix(lines(content)[k]) THEN 0
          ELSE Cardinality(TextualMatches(lines(content)[k], name)))
         + MatchesFrom(name, k + 1)

NoNameTwice == \A i, j \in 1..Len(kmp_symbols) : kmp_symbols[i] = kmp_symbols[j] => i = j

UsageOf(name) ==
    IF name \in DOMAIN usages.map THEN usages.map[name] ELSE EmptyUsage(name)

\* C23: one usage occurrence is recorded per textual match: for each symbol
\* of a list of distinct names, reference_count and the number of usage_lines
\* records equal the number of boundary-delimited matches of the name in the
\* lines that are not skipped, a line holding the symbol twice counting twice.
C23_OnePerTextualMatch ==
    (usages.done /\ NoNameTwice) =>
        \A name \in Range(kmp_symbols) :
            /\ UsageOf(name).reference_count = MatchesFrom(name, 1)
            /\ Len(UsageOf(name).usage_lines) = MatchesFrom(name, 1)

(***************************************************************************)
(* C30: a name listed more than once                                       *)
(***************************************************************************)
\* how many entries of the list of symbol names are name
Multiplicity(name) ==
    Cardinality({i \in 1..Len(kmp_symbols) : kmp_symbols[i] = name})

\* the lines that are not skipped and match the usage pattern of name
MatchingLines(name) ==
    {k \in 1..Len(lines(content)) :
        /\ ~StartsWithNonCodePrefix(lines(content)[k])
        /\ UsageIsMatch(lines(content)[k], name)}

\* the records of name that refer to line k
RecordsOfLine(name, k) ==
    {r \in 1..Len(UsageOf(name).usage_lines) : UsageOf(name).usage_lines[r].line = k}

\* C30: detection goes over the list of symbol names, not over the distinct
\* names: a name listed k times gets k usage records for each matching line
\* and its reference_count grows by k per matching line, while the files
\* directly affected hold the file once.
C30_ListedNamesCountEach ==
    usages.done =>
        /\ \A name \in Range(kmp_symbols) :
              /\ UsageOf(name).reference_count =
                     Multiplicity(name) * Cardinality(MatchingLines(name))
              /\ \A k \in 1..Len(lines(content)) :
                     Cardinality(RecordsOfLine(name, k)) =
                         IF k \in MatchingLines(name) THEN Multiplicity(name) ELSE 0
        /\ \A files \in get_affected_files(AggregateUsages(<<>>, usages.map)) :
              files = IF \E name \in Range(kmp_symbols) : MatchingLines(name) # {}
                      THEN <<UsageFile>> ELSE <<>>

\* a scan has returned for a list that names User twice and a content with
\* two lines that match User
C30_Witness ==
    /\ usages.done
    /\ Multiplicity(W_User) = 2
    /\ Cardinality(MatchingLines(W_User)) = 2
    /\ UsageOf(W_User).reference_count = 4

(***************************************************************************)
(* C24: the order of the extracted symbols                                 *)
(***************************************************************************)
\* the place of a kind in the order the patterns are run in
KindRank ==
    [Class |-> 1, Interface |-> 2, Object |-> 3, Function |-> 4,
     Property |-> 5, TypeAlias |-> 6]

\* the first line start of content c at which a declaration of the kind
\* captures the name; 0 when there is none
DeclaredAt(c, name, symbol_type) ==
    LET kws    == CASE symbol_type = "Class" -> {K_class}
                    [] symbol_type = "Interface" -> {K_interface}
                    [] symbol_type = "Object" -> {K_object}
                    [] symbol_type = "Function" -> {K_fun}
                    [] symbol_type = "Property" -> {K_val, K_var}
                    [] OTHER -> {K_typealias}
        first  == IF symbol_type \in {"Function", "Property"} THEN Lower ELSE Upper
        follow == CASE symbol_type = "Function" -> {"("}
                    [] symbol_type = "Property" -> {":", "="}
                    [] OTHER -> {}
        at     == {i \in LineStarts(c) :
                      /\ DeclAt(c, i, kws, first, follow).found
                      /\ DeclAt(c, i, kws, first, follow).name = name}
    IN  IF at = {} THEN 0 ELSE SetMin(at)

\* how many symbols the files before position i of the list gave
RECURSIVE SymbolsBefore(_)
SymbolsBefore(i) ==
    IF i <= 1 THEN 0
    ELSE SymbolsBefore(i - 1) + Len(SymbolTable[fs[project.kmp_files[i - 1]].text])

\* the position in the list of the file that symbol k came from
BlockOf(k) ==
    SetMax({i \in 1..Len(project.kmp_files) : SymbolsBefore(i) < k})

\* symbol k stands before symbol k + 1 of the same file: an earlier kind, or
\* the same kind declared earlier in the text
InFileOrder(k) ==
    LET c == fs[symbols[k].file_path].text
    IN  \/ KindRank[symbols[k].symbol_type] < KindRank[symbols[k + 1].symbol_type]
        \/ /\ symbols[k].symbol_type = symbols[k + 1].symbol_type
           /\ DeclaredAt(c, symbols[k].name, symbols[k].symbol_type) > 0
           /\ DeclaredAt(c, symbols[k].name, symbols[k].symbol_type)
                  < DeclaredAt(c, symbols[k + 1].name, symbols[k + 1].symbol_type)

\* C24: the symbols of one file come kind after kind (Class, Interface,
\* Object, Function, Property, TypeAlias) and not in source order, within one
\* kind in source order; across files they follow the input list; every
\* symbol is marked public and carries the file it was extracted from.
C24_KindOrderThenListOrder ==
    pc = "extracted" =>
        /\ Len(symbols) = SymbolsBefore(Len(project.kmp_files) + 1)
        /\ \A k \in 1..Len(symbols) :
              /\ symbols[k].is_public
              /\ symbols[k].file_path = project.kmp_files[BlockOf(k)]
              /\ DeclaredAt(fs[symbols[k].file_path].text, symbols[k].name,
                            symbols[k].symbol_type) > 0
        /\ \A k \in 1..(Len(symbols) - 1) :
              BlockOf(k) = BlockOf(k + 1) => InFileOrder(k)

\* symbols were returned for two files, the first of which declares a
\* function before an interface and a class after both
C24_Witness ==
    /\ pc = "extracted"
    /\ project.kmp_files = <<"K1", "A1">>
    /\ fs["K1"].text = C_SharedKinds
    /\ Len(symbols) > 6
    /\ symbols[1].symbol_type = "Class"
    /\ symbols[4].symbol_type = "Function"
    /\ symbols[7].file_path = "A1"

(***************************************************************************)
(* C25: the order of the steps of execute                                  *)
(***************************************************************************)
\* the moves of execute from one step to the next, to a failure, or back to
\* the caller
StepMoves ==
    {<<"idle", "extract">>, <<"extract", "detect">>, <<"detect", "graph">>,
     <<"graph", "transitive">>, <<"transitive", "done">>,
     <<"extract", "failed">>, <<"detect", "failed">>, <<"graph", "failed">>,
     <<"done", "idle">>, <<"failed", "idle">>}

\* C25: in every run of execute the steps come in the order discovery,
\* symbol extraction, usage detection over the files of every platform, graph
\* build over the shared files and all application files, one transitive
\* computation seeded with the direct files, impact calculation and
\* aggregation. A step runs only after the steps before it succeeded,
\* calculate_transitive only after build_graph returned Ok in the same run,
\* and a result is returned only when all steps succeeded.
C25_StepOrder ==
    [][/\ pc' # pc => <<pc, pc'>> \in StepMoves
       /\ (pc = "extract" /\ pc' = "detect") =>
              /\ KmpFilesReadable
              /\ todo' = FilesInOrder(project.app_files, platform_order)
       /\ usages' # usages => (pc = "detect" \/ pc' = "idle")
       /\ (pc = "detect" /\ pc' = "graph") => todo = <<>>
       /\ (pc = "detect" /\ pc' = "failed") => (todo # <<>> /\ ~fs[Head(todo)].ok)
       /\ <<package_map, dependencies, reverse_dependencies, build_result>>'
              # <<package_map, dependencies, reverse_dependencies, build_result>>
              => pc = "graph"
       /\ pc = "graph" =>
              /\ pc' # "graph"
              /\ pc' = "transitive" <=> build_result' = "ok"
              /\ build_result' = "ok" =>
                     \A f \in Range(AllFiles) : f \in DOMAIN dependencies'
       /\ (bfs_pc = "idle" /\ bfs_pc' # "idle") =>
              /\ pc = "transitive"
              /\ build_result = "ok"
              /\ direct_impact_files' = Range(direct_affected_files)
       /\ (bfs_pc # "idle" /\ bfs_pc' = "idle") => pc' = "idle"
       /\ (pc = "transitive" /\ pc' = "done") => (bfs_pc = "done" /\ result'.total_symbols = Len(symbols))
       /\ result' # result => (pc' = "done" \/ pc' = "idle")
       /\ pc' = "failed" => result' = NoResult]_vars

\* a second run has returned a result after a traversal that found files
C25_Witness ==
    /\ pc = "done"
    /\ runs = 2
    /\ build_result = "ok"
    /\ bfs_pc = "done"
    /\ transitive # {}
    /\ todo = <<>>

(***************************************************************************)
(* Specification SpecThreads: threads calling build_dependency_graph and   *)
(* calculate_transitive_dependencies on one DependencyRepositoryImpl; each *)
(* call locks the mutex, runs build or compute_transitive_impact one file  *)
(* or one loop iteration per step, and drops the guard when it returns     *)
(***************************************************************************)
\* the most calls one thread makes
MaxThreadCalls == 2

\* the longest list a thread hands to build_dependency_graph
MaxThreadFiles == 2

\* the files the threads name
ThreadPaths == {"K1", "A1", "A2"}

ThreadFileLists ==
    {l \in FileLists : Len(l) <= MaxThreadFiles /\ Range(l) \subseteq ThreadPaths}

\* what each path may hold while the threads run
ThreadFsChoices ==
    [K1 |-> {Unreadable},
     A1 |-> {Readable(C_AppCycle)},
     A2 |-> {Readable(C_ImportsMain)},
     I1 |-> {Readable(C_Wildcard)}]

ThreadFileSystems == DisksOf(ThreadFsChoices)

InitThreads ==
    /\ fs \in ThreadFileSystems
    /\ IdleUsage
    /\ IdleGraph
    /\ IdleThreads
    /\ IdleBfs
    /\ IdlePipe

\* thread t calls build_dependency_graph(file_paths)
CallBuild(t, file_paths) ==
    /\ threads[t].pc = "idle"
    /\ threads[t].made < MaxThreadCalls
    /\ threads' = [threads EXCEPT ![t].op = "build", ![t].pc = "lock",
                                  ![t].file_paths = file_paths]
    /\ UNCHANGED <<mutex, fs, usageVars, graphVars, bfsVars, pipeVars>>

\* thread t calls calculate_transitive_dependencies(direct_files)
CallTransitive(t, direct_files) ==
    /\ threads[t].pc = "idle"
    /\ threads[t].made < MaxThreadCalls
    /\ threads' = [threads EXCEPT ![t].op = "transitive", ![t].pc = "lock",
                                  ![t].direct_files = direct_files]
    /\ UNCHANGED <<mutex, fs, usageVars, graphVars, bfsVars, pipeVars>>

\* the method entered: its locals as they are before its first loop
Entered(t) ==
    IF threads[t].op = "build"
    THEN {[threads[t] EXCEPT !.pc = "index", !.pos = 1, !.entry = Graph]}
    ELSE {[threads[t] EXCEPT !.pc = "loop", !.queue = o, !.transitive = {},
                             !.entry = Graph] : o \in Orders(threads[t].direct_files)}

\* the method entered without waiting for the mutex
Lock_NoWait(t) ==
    /\ threads[t].pc = "lock"
    /\ mutex' = t
    /\ \E entered \in Entered(t) : threads' = [threads EXCEPT ![t] = entered]
    /\ UNCHANGED <<fs, usageVars, graphVars, bfsVars, pipeVars>>

\* self.graph.lock().unwrap(): the thread gets the mutex when it is free
Lock(t) ==
    /\ threads[t].pc = "lock"
    /\ mutex = "free"
    /\ mutex' = t
    /\ \E entered \in Entered(t) : threads' = [threads EXCEPT ![t] = entered]
    /\ UNCHANGED <<fs, usageVars, graphVars, bfsVars, pipeVars>>

\* build, first pass: one file, and after the last one the iteration order
\* of the package map that the second pass will see
IndexStep(t) ==
    /\ threads[t].pc = "index"
    /\ LET file_paths == threads[t].file_paths
           pos == threads[t].pos
       IN  IF pos <= Len(file_paths)
           THEN /\ package_map' = BuildPackageMap(package_map, fs, <<file_paths[pos]>>)
                /\ threads' = [threads EXCEPT ![t].pos = pos + 1]
           ELSE /\ \E key_order \in Orders(PrefixCandidates(package_map, fs, file_paths)) :
                       threads' = [threads EXCEPT ![t].pc = "edges", ![t].pos = 1,
                                                  ![t].key_order = key_order]
                /\ UNCHANGED package_map
    /\ UNCHANGED <<dependencies, reverse_dependencies, build_result, built_files, builds,
                   mutex, fs, usageVars, bfsVars, pipeVars>>

\* build, second pass: one file, or the return after the last one
EdgeStep(t) ==
    /\ threads[t].pc = "edges"
    /\ LET file_paths == threads[t].file_paths
           pos == threads[t].pos
       IN  IF pos <= Len(file_paths)
           THEN LET r == BuildEdges(Graph, threads[t].key_order, fs, <<file_paths[pos]>>)
                IN  IF r.ok
                    THEN /\ dependencies' = r.graph.dependencies
                         /\ reverse_dependencies' = r.graph.reverse_dependencies
                         /\ threads' = [threads EXCEPT ![t].pos = pos + 1]
                         /\ UNCHANGED build_result
                    ELSE /\ build_result' = "err"
                         /\ threads' = [threads EXCEPT ![t].pc = "done"]
                         /\ UNCHANGED <<dependencies, reverse_dependencies>>
           ELSE /\ build_result' = "ok"
                /\ threads' = [threads EXCEPT ![t].pc = "done"]
                /\ UNCHANGED <<dependencies, reverse_dependencies>>
    /\ UNCHANGED <<package_map, built_files, builds, mutex, fs, usageVars, bfsVars, pipeVars>>

\* compute_transitive_impact: one iteration of the while loop, or the removal
\* of the direct files after it
TraverseStep(t) ==
    /\ threads[t].pc = "loop"
    /\ LET q == threads[t].queue
           seen == threads[t].transitive
       IN  IF q = <<>>
           THEN threads' = [threads EXCEPT ![t].pc = "done",
                                           ![t].transitive = seen \ threads[t].direct_files]
           ELSE IF Head(q) \in seen
                THEN threads' = [threads EXCEPT ![t].queue = Tail(q)]
                ELSE \E o \in Orders({d \in MapGet(reverse_dependencies, Head(q)) :
                                         d \notin seen \cup {Head(q)}}) :
                         threads' = [threads EXCEPT ![t].queue = Tail(q) \o o,
                                                    ![t].transitive = seen \cup {Head(q)}]
    /\ UNCHANGED <<mutex, fs, usageVars, graphVars, bfsVars, pipeVars>>

\* the statement is over: the guard is dropped, the call returns
Unlock(t) ==
    /\ threads[t].pc = "done"
    /\ mutex' = "free"
    /\ threads' = [threads EXCEPT ![t] = [NoCall EXCEPT !.made = threads[t].made + 1]]
    /\ UNCHANGED <<fs, usageVars, graphVars, bfsVars, pipeVars>>

NextThreads ==
    \E t \in Threads :
        \/ \E file_paths \in ThreadFileLists : CallBuild(t, file_paths)
        \/ \E direct_files \in SUBSET {"A1", "A2"} : CallTransitive(t, direct_files)
        \/ Lock(t)
        \/ IndexStep(t)
        \/ EdgeStep(t)
        \/ TraverseStep(t)
        \/ Unlock(t)

SpecThreads == InitThreads /\ [][NextThreads]_vars

\* thread t is inside build or compute_transitive_impact
InsideCall(t) == threads[t].pc \in {"index", "edges", "loop", "done"}

\* C26: with several threads calling build_dependency_graph and
\* calculate_transitive_dependencies on one repository, every call runs under
\* the mutex from its first step to its return: no two calls are inside at
\* once, a build leaves the maps as build run alone on the maps it found
\* would, and a traversal sees the same maps from its start to its end and
\* returns what it would return run alone on them.
C26_CallsUnderMutex ==
    \A t \in Threads :
        /\ InsideCall(t) => mutex = t
        /\ InsideCall(t) => \A u \in Threads \ {t} : ~InsideCall(u)
        /\ (threads[t].op = "build" /\ threads[t].pc = "done") =>
              LET r == build(threads[t].entry, threads[t].key_order, fs, threads[t].file_paths)
              IN  Graph = r.graph /\ build_result = (IF r.ok THEN "ok" ELSE "err")
        /\ (threads[t].op = "transitive" /\ InsideCall(t)) => Graph = threads[t].entry
        /\ (threads[t].op = "transitive" /\ threads[t].pc = "done") =>
              threads[t].transitive =
                  ClosureIn(reverse_dependencies, threads[t].direct_files)
                      \ threads[t].direct_files

\* one thread is in the second pass of a build that has added an edge while
\* the other waits for the mutex with a traversal
C26_Witness ==
    /\ threads["t1"].op = "build"
    /\ threads["t1"].pc = "edges"
    /\ threads["t1"].pos = 2
    /\ reverse_dependencies # threads["t1"].entry.reverse_dependencies
    /\ threads["t2"].op = "transitive"
    /\ threads["t2"].pc = "lock"
    /\ threads["t2"].made = 1

(***************************************************************************)
(* Specification SpecPartial: one build on a fresh instance, which may     *)
(* fail part-way, and traversals of what it left                           *)
(***************************************************************************)
\* the direct sets the traversals start from
PartialSeeds == {{f} : f \in Paths} \cup {{"A1", "A2"}}

NextPartial ==
    \/ NextResolve
    \/ \E D \in PartialSeeds : BfsStart(D)
    \/ BfsLoop
    \/ BfsReturn
    \/ BfsDrop

SpecPartial == InitResolve /\ [][NextPartial]_vars

\* the key file f registers in the first pass: its package, a dot, its
\* primary type
RegisteredKey(f) ==
    ParseTable[fs[f].text].package \o <<".">> \o ParseTable[fs[f].text].primary.name

\* f can be read and declares a primary type
Registers(f) == fs[f].ok /\ ParseTable[fs[f].text].primary.found

\* C27: build returns an error exactly when a file of its list cannot be
\* read in the edge pass; the index pass skips such a file silently. A failed
\* build is not rolled back: the package map keeps the entries of all
\* readable files, the files before the failing one keep their forward and
\* reverse edges, and a later compute_transitive_impact follows those edges.
C27_FailedBuildKeepsEdges ==
    builds >= 1 =>
        /\ build_result = "err" <=> \E f \in Range(built_files) : ~fs[f].ok
        /\ \A f \in Range(built_files) :
              Registers(f) =>
                  /\ RegisteredKey(f) \in DOMAIN package_map
                  /\ package_map[RegisteredKey(f)] \in Range(built_files)
                  /\ RegisteredKey(package_map[RegisteredKey(f)]) = RegisteredKey(f)
        /\ ProcessedFiles \subseteq DOMAIN dependencies
        /\ builds = 1 => DOMAIN dependencies = ProcessedFiles
        /\ \A X \in ProcessedFiles :
              /\ OneEdgePerImport(X)
              /\ \A Y \in dependencies[X] : X \in MapGet(reverse_dependencies, Y)
        /\ bfs_pc = "done" =>
              transitive = ClosureIn(reverse_dependencies, direct_impact_files)
                               \ direct_impact_files

\* a build has failed at its last file, a file registered by a later entry
\* of the list is in the package map, and a traversal has returned a file over
\* an edge the failed build added
C27_Witness ==
    /\ build_result = "err"
    /\ Len(built_files) = 3
    /\ ~fs[built_files[2]].ok
    /\ Registers(built_files[3])
    /\ ProcessedFiles # {}
    /\ bfs_pc = "done"
    /\ transitive # {}
    /\ transitive \subseteq ProcessedFiles

(***************************************************************************)
(* C28: the order of the files in the list                                 *)
(***************************************************************************)
\* no two files of the list register the same key
DistinctKeys(files) ==
    \A i, j \in 1..Len(files) :
        (i # j /\ Registers(files[i]) /\ Registers(files[j]))
            => RegisteredKey(files[i]) # RegisteredKey(files[j])

\* every import of the files that is resolved by prefix has one candidate key
OnePrefixCandidate(files) ==
    \A X \in Range(files) :
        fs[X].ok => \A i \in 1..Len(ImportsOf(X)) :
                        ImportsOf(X)[i] \in DOMAIN package_map
                            \/ Cardinality(KeysStartingWith(ImportsOf(X)[i])) <= 1

\* the lists that hold the files of the list once each, in any order
Reorderings(files) == {l \in FileLists : Len(l) = Len(files) /\ Range(l) = Range(files)}

\* the graph is the one build leaves on an empty instance for every order of
\* the files of the list
SameForEveryOrder ==
    \A l \in Reorderings(built_files) : FreshGraphs(l) = {Graph}

TotalImpact == direct_impact_files \cup transitive

\* C29: for any built graph and any direct set D, the total-impact set
\* D \cup compute_transitive_impact(D) is closed under reverse edges, it is
\* monotone in D, and every file that compute_transitive_impact(D) returns was
\* passed to build and has at least one resolved import.
C29_TotalImpactClosed ==
    bfs_pc = "done" =>
        /\ \A f \in TotalImpact : Dependents(f) \subseteq TotalImpact
        /\ \A D1 \in SUBSET direct_impact_files :
              ClosureIn(reverse_dependencies, D1) \subseteq TotalImpact
        /\ \A g \in transitive :
              g \in DOMAIN dependencies /\ dependencies[g] # {}

====
